---- MODULE Spec2Model ----
(***************************************************************************)
(* Pipeline construction, dataset registries and pipeline execution of the *)
(* nianalysis/banana study classes.                                        *)
(*                                                                         *)
(* A pipeline-construction method is a straight-line program of framework  *)
(* calls (create_pipeline, create_node, connect_input, connect_output,     *)
(* connect, assert_connected, return).  Each method is transcribed as the  *)
(* sequence of the calls it makes, in source order, and the construction   *)
(* actions execute that sequence one call at a time.                       *)
(***************************************************************************)
EXTENDS Integers, Sequences, FiniteSets, TLC

VARIABLES
    cls,        \* the study class the method is called on
    target,     \* dataset name looked up in the registry ("" for a direct call)
    method,     \* <<defining class, method name>> being executed
    options,    \* keyword options passed by the caller
    pc,         \* number of calls of the method body executed so far
    pipeline,   \* the pipeline object under construction
    validated,  \* assert_connected has passed and nothing was wired since
    status,     \* "idle" | "building" | "returned" | "raised"
    error,      \* name of the exception when status = "raised"
    scenario,   \* the run being executed ("" while only constructing)
    step,       \* number of calls of the running script executed so far
    scheduled,  \* pipelines handed to the workflow engine and not finished
    store,      \* archive contents: dataset key -> value (Absent when missing)
    generated,  \* how many times each dataset key has been written
    files,      \* directory listing of the local archive: <<directory, file>>
    inherited,  \* generated components of the base classes not defined here
    resolving   \* the datasets whose producers are being looked up, outermost
                \* first

vars == <<cls, target, method, options, pc, pipeline, validated, status,
          error, scenario, step, scheduled, store, generated, files,
          inherited, resolving>>

buildVars == <<cls, target, method, options, pc, pipeline, validated,
               status, error>>

runVars == <<scenario, step, scheduled, store, generated, files, inherited>>

(***************************************************************************)
(* Dataset specifications                                                  *)
(***************************************************************************)

\* DatasetSpec(name, format, pipeline=None, multiplicity='per_session')
DatasetSpec(n, f, p, m) ==
    [name |-> n, format |-> f, pipeline |-> p, multiplicity |-> m]

\* FieldSpec(name, dtype, pipeline=None)
FieldSpec(n, d, p) ==
    [name |-> n, format |-> d, pipeline |-> p, multiplicity |-> "per_session"]

Acquired == ""

\* MRIStudy._data_specs
MRIStudy_data_specs == <<
    DatasetSpec("primary", "nifti_gz", Acquired, "per_session"),
    DatasetSpec("dicom_dwi", "dicom", Acquired, "per_session"),
    DatasetSpec("dicom_dwi_1", "dicom", Acquired, "per_session"),
    DatasetSpec("preproc", "nifti_gz", "basic_preproc_pipeline", "per_session"),
    DatasetSpec("masked", "nifti_gz", "brain_mask_pipeline", "per_session"),
    DatasetSpec("brain_mask", "nifti_gz", "brain_mask_pipeline", "per_session"),
    DatasetSpec("coreg_to_atlas", "nifti_gz", "coregister_to_atlas_pipeline",
                "per_session"),
    DatasetSpec("dwipreproc", "nifti_gz", "eddy_pipeline", "per_session"),
    DatasetSpec("eddy_par", "eddy_par", "eddy_pipeline", "per_session"),
    DatasetSpec("coreg_to_atlas_coeff", "nifti_gz",
                "coregister_to_atlas_pipeline", "per_session"),
    DatasetSpec("wm_seg", "nifti_gz", "segmentation_pipeline", "per_session"),
    DatasetSpec("dicom_file", "dicom", Acquired, "per_session"),
    FieldSpec("tr", "float", "header_info_extraction_pipeline"),
    FieldSpec("start_time", "str", "header_info_extraction_pipeline"),
    FieldSpec("real_duration", "str", "header_info_extraction_pipeline"),
    FieldSpec("tot_duration", "str", "header_info_extraction_pipeline"),
    FieldSpec("ped", "str", "header_info_extraction_pipeline"),
    FieldSpec("phase_offset", "str", "header_info_extraction_pipeline") >>

\* T1Study.add_data_specs
T1Study_add_data_specs == <<
    DatasetSpec("fs_recon_all", "freesurfer_recon_all", "freesurfer_pipeline",
                "per_session"),
    DatasetSpec("brain", "nifti_gz", "brain_extraction_pipeline",
                "per_session"),
    DatasetSpec("suit_mask", "STD_IMAGE_FORMATS", Acquired, "per_study") >>

\* T2StarStudy._dataset_specs
T2StarStudy_dataset_specs == <<
    DatasetSpec("kspace", "directory", Acquired, "per_session"),
    DatasetSpec("qsm", "nifti_gz", "qsm_pipeline", "per_session"),
    DatasetSpec("tissue_phase", "nifti_gz", "qsm_pipeline", "per_session"),
    DatasetSpec("tissue_mask", "nifti_gz", "qsm_pipeline", "per_session"),
    DatasetSpec("qsm_mask", "nifti_gz", "qsm_pipeline", "per_session") >>

\* DummyStudy._dataset_specs with the producing method left out of the
\* 'pipeline3' entry.
DummyStudy_dataset_specs_no_pipeline3 == <<
    DatasetSpec("start", "nifti_gz", Acquired, "per_session"),
    DatasetSpec("ones_slice", "mrtrix", Acquired, "per_session"),
    DatasetSpec("pipeline1_1", "nifti_gz", "pipeline1", "per_session"),
    DatasetSpec("pipeline1_2", "nifti_gz", "pipeline1", "per_session"),
    DatasetSpec("pipeline2", "nifti_gz", "pipeline2", "per_session"),
    DatasetSpec("pipeline3", "nifti_gz", Acquired, "per_session"),
    DatasetSpec("pipeline4", "nifti_gz", "pipeline4", "per_session"),
    DatasetSpec("subject_summary", "mrtrix", "subject_summary_pipeline",
                "per_subject"),
    DatasetSpec("project_summary", "mrtrix", "project_summary_pipeline",
                "per_project") >>

\* DummyStudy._dataset_specs
DummyStudy_dataset_specs == <<
    DatasetSpec("start", "nifti_gz", Acquired, "per_session"),
    DatasetSpec("ones_slice", "mrtrix", Acquired, "per_session"),
    DatasetSpec("pipeline1_1", "nifti_gz", "pipeline1", "per_session"),
    DatasetSpec("pipeline1_2", "nifti_gz", "pipeline1", "per_session"),
    DatasetSpec("pipeline2", "nifti_gz", "pipeline2", "per_session"),
    DatasetSpec("pipeline3", "nifti_gz", "pipeline3", "per_session"),
    DatasetSpec("pipeline4", "nifti_gz", "pipeline4", "per_session"),
    DatasetSpec("subject_summary", "mrtrix", "subject_summary_pipeline",
                "per_subject"),
    DatasetSpec("project_summary", "mrtrix", "project_summary_pipeline",
                "per_project") >>

\* ConversionStudy.add_data_specs with the producing method left out of the
\* first derived entry.
ConversionStudy_add_data_specs_no_producer == <<
    DatasetSpec("mrtrix", "text", Acquired, "per_session"),
    DatasetSpec("nifti_gz", "text", Acquired, "per_session"),
    DatasetSpec("dicom", "dicom", Acquired, "per_session"),
    DatasetSpec("directory", "directory", Acquired, "per_session"),
    DatasetSpec("zip", "zip", Acquired, "per_session"),
    DatasetSpec("nifti_gz_from_dicom", "text", Acquired, "per_session"),
    DatasetSpec("mrtrix_from_nifti_gz", "text", "conv_pipeline", "per_session"),
    DatasetSpec("nifti_from_mrtrix", "nifti", "conv_pipeline", "per_session"),
    DatasetSpec("directory_from_zip", "directory", "conv_pipeline",
                "per_session"),
    DatasetSpec("zip_from_directory", "zip", "conv_pipeline", "per_session") >>

\* ConversionStudy.add_data_specs
ConversionStudy_add_data_specs == <<
    DatasetSpec("mrtrix", "text", Acquired, "per_session"),
    DatasetSpec("nifti_gz", "text", Acquired, "per_session"),
    DatasetSpec("dicom", "dicom", Acquired, "per_session"),
    DatasetSpec("directory", "directory", Acquired, "per_session"),
    DatasetSpec("zip", "zip", Acquired, "per_session"),
    DatasetSpec("nifti_gz_from_dicom", "text", "conv_pipeline", "per_session"),
    DatasetSpec("mrtrix_from_nifti_gz", "text", "conv_pipeline", "per_session"),
    DatasetSpec("nifti_from_mrtrix", "nifti", "conv_pipeline", "per_session"),
    DatasetSpec("directory_from_zip", "directory", "conv_pipeline",
                "per_session"),
    DatasetSpec("zip_from_directory", "zip", "conv_pipeline", "per_session") >>

\* Scan(name, format, pipeline=None): a component of a dataset class.
Component(n, f, p) == DatasetSpec(n, f, p, "per_session")

\* The generated components T1Dataset and T2Dataset may hand down, in the
\* order generated_components() yields them.  Both classes may carry the
\* components of a common base.
ParentGenerated ==
    [T1Dataset :
        {<< >>,
         << Component("brain_mask", "nifti", "brain_mask_pipeline") >>,
         << Component("fs_recon_all", "freesurfer", "freesurfer_pipeline") >>,
         << Component("brain_mask", "nifti", "brain_mask_pipeline"),
            Component("fs_recon_all", "freesurfer", "freesurfer_pipeline") >>},
     T2Dataset :
        {<< >>,
         << Component("brain_mask", "nifti", "brain_mask_pipeline") >>,
         << Component("t2_wm_seg", "nifti", "t2_segmentation_pipeline") >>,
         << Component("brain_mask", "nifti", "brain_mask_pipeline"),
            Component("t2_wm_seg", "nifti", "t2_segmentation_pipeline") >>}]

NoInherited == [T1Dataset |-> << >>, T2Dataset |-> << >>]

\* The entries of a sequence of components that no later entry of the same
\* name replaces.
RECURSIVE LastOfEachName(_, _)
LastOfEachName(all, i) ==
    IF i > Len(all) THEN << >>
    ELSE (IF \E j \in (i + 1)..Len(all) : all[j].name = all[i].name
          THEN << >> ELSE << all[i] >>)
         \o LastOfEachName(all, i + 1)

\* _create_component_dict(*comps, inherit_from=...): a dictionary by name of
\* the inherited components updated with the class's own.
_create_component_dict(comps, inherit_from) ==
    LastOfEachName(inherit_from \o comps, 1)

\* T1AndT2Dataset._components inheriting from T1Dataset only.
T1AndT2Dataset_components_t1_only(gen) ==
    _create_component_dict(
        << Component("t1", "nifti", Acquired),
           Component("t2", "nifti", Acquired),
           Component("t2_coreg", "nifti", "coregistration_pipeline") >>,
        gen.T1Dataset)

\* T1AndT2Dataset._components, gen being the generated components of the
\* base classes:
\*   inherit_from=chain(T1Dataset.generated_components(),
\*                      T2Dataset.generated_components())
T1AndT2Dataset_components(gen) ==
    _create_component_dict(
        << Component("t1", "nifti", Acquired),
           Component("t2", "nifti", Acquired),
           Component("t2_coreg", "nifti", "coregistration_pipeline") >>,
        gen.T1Dataset \o gen.T2Dataset)

StudyClasses == {"MRIStudy", "T1Study", "T2StarStudy", "DummyStudy",
                 "ConversionStudy"}

\* nianalysis/dataset/mri/multi.py
DatasetClasses == {"T1AndT2Dataset"}

\* The classes whose source is not part of this model.
ExternalClasses == {"T1Dataset", "T2Dataset", "Study"}

\* The base classes of each class, nearest first, ending at the framework's
\* Study (class statements).
Bases(c) ==
    CASE c = "T1Study" -> <<"T1Study", "MRIStudy", "Study">>
      [] c = "T2StarStudy" -> <<"T2StarStudy", "MRIStudy", "Study">>
      [] c = "MRIStudy" -> <<"MRIStudy", "Study">>
      [] c = "DummyStudy" -> <<"DummyStudy", "Study">>
      [] c = "ConversionStudy" -> <<"ConversionStudy", "Study">>
      [] c = "T1AndT2Dataset" -> <<"T1AndT2Dataset", "T1Dataset", "T2Dataset">>
      [] OTHER -> <<c>>

\* The pipeline-construction methods each class body defines.
Defines(c) ==
    CASE c = "MRIStudy" ->
            {"brain_mask_pipeline", "coregister_to_atlas_pipeline",
             "_fsl_fnirt_to_atlas_pipeline", "segmentation_pipeline",
             "basic_preproc_pipeline", "header_info_extraction_pipeline",
             "eddy_pipeline", "topup_pipeline"}
      [] c = "T1Study" ->
            {"freesurfer_pipeline", "segmentation_pipeline", "bet_T1",
             "cet_T1"}
      [] c = "T2StarStudy" -> {"qsm_pipeline"}
      [] c = "DummyStudy" ->
            {"pipeline1", "pipeline2", "pipeline3", "pipeline4",
             "subject_summary_pipeline", "project_summary_pipeline"}
      [] c = "ConversionStudy" -> {"conv_pipeline"}
      [] c = "T1AndT2Dataset" -> {"coregistration_pipeline"}
      [] OTHER -> {}

\* The producing methods of the components a class outside the source hands
\* down; the class defines them.
HandedDown(c) ==
    CASE c = "T1Dataset" ->
            {inherited.T1Dataset[i].pipeline : i \in DOMAIN inherited.T1Dataset}
      [] c = "T2Dataset" ->
            {inherited.T2Dataset[i].pipeline : i \in DOMAIN inherited.T2Dataset}
      [] OTHER -> {}

\* The registry of a class.  set_data_specs / set_dataset_specs without
\* inherit_from hold only the class's own entries; add_data_specs adds to
\* the entries of the base class.
Registry(c) ==
    CASE c = "MRIStudy" -> MRIStudy_data_specs
      [] c = "T1Study" -> MRIStudy_data_specs \o T1Study_add_data_specs
      [] c = "T2StarStudy" -> T2StarStudy_dataset_specs
      [] c = "DummyStudy" -> DummyStudy_dataset_specs
      [] c = "ConversionStudy" -> ConversionStudy_add_data_specs
      [] c = "T1AndT2Dataset" -> T1AndT2Dataset_components(inherited)
      [] OTHER -> << >>

Range(s) == {s[i] : i \in DOMAIN s}

RegistryNames(c) == {e.name : e \in Range(Registry(c))}

\* The entries registered under one name.
Entries(c, n) == {i \in DOMAIN Registry(c) : Registry(c)[i].name = n}

\* Attribute lookup along the method resolution order: the first class of
\* Bases(c) that defines m, or "" when none does (AttributeError).
RECURSIVE ResolveFrom(_, _, _)
ResolveFrom(bs, i, m) ==
    IF i > Len(bs) THEN ""
    ELSE IF m \in Defines(bs[i]) THEN bs[i]
    ELSE ResolveFrom(bs, i + 1, m)

Resolve(c, m) == ResolveFrom(Bases(c), 1, m)

\* Method m of class c is found on a base class outside the source.
ProducedOutside(c, m) ==
    /\ Resolve(c, m) = ""
    /\ \E i \in DOMAIN Bases(c) :
          Bases(c)[i] \in ExternalClasses /\ m \in HandedDown(Bases(c)[i])

(***************************************************************************)
(* Framework calls made by the pipeline-construction methods               *)
(***************************************************************************)

NoCall ==
    [op |-> "", name |-> "", node |-> "", field |-> "", src |-> "",
     sfield |-> "", iface |-> "", join |-> "", value |-> "", list |-> << >>,
     ins |-> {}, outs |-> {}, conns |-> {}, defaults |-> << >>]

\* self.create_pipeline(name=, inputs=, outputs=, default_options=, options=)
\* i and o are sets of <<dataset name, format>>; d maps option name to value.
create_pipeline(n, i, o, d) ==
    [NoCall EXCEPT !.op = "create_pipeline", !.name = n, !.ins = i,
                   !.outs = o, !.defaults = d]

\* pipeline.create_node(interface, name=) and pe.Node(interface, name=)
create_node(k, n) ==
    [NoCall EXCEPT !.op = "create_node", !.iface = k, !.node = n]

\* pe.JoinNode(interface, joinsource=, joinfield=['in_files'], name=)
create_join_node(k, j, n) ==
    [NoCall EXCEPT !.op = "create_node", !.iface = k, !.join = j, !.node = n]

\* node.inputs.<field> = <scalar value>
set_input(n, f, v) ==
    [NoCall EXCEPT !.op = "set_input", !.node = n, !.field = f, !.value = v]

\* node.inputs.<field> = <list of numbers>
set_input_list(n, f, l) ==
    [NoCall EXCEPT !.op = "set_input", !.node = n, !.field = f,
                   !.value = "list", !.list = l]

\* pipeline.connect_input(name, node, field)
connect_input(d, n, f) ==
    [NoCall EXCEPT !.op = "connect_input", !.name = d, !.node = n,
                   !.field = f]

\* pipeline.connect_output(name, node, field)
connect_output(d, n, f) ==
    [NoCall EXCEPT !.op = "connect_output", !.name = d, !.node = n,
                   !.field = f]

\* pipeline.connect(src node, src field, dest node, dest field)
connect(s, sf, n, f) ==
    [NoCall EXCEPT !.op = "connect", !.src = s, !.sfield = sf, !.node = n,
                   !.field = f]

\* pipeline.assert_connected()
assert_connected == [NoCall EXCEPT !.op = "assert_connected"]

\* return pipeline
return_pipeline == [NoCall EXCEPT !.op = "return"]

\* raise <exception>
raise(e) == [NoCall EXCEPT !.op = "raise", !.name = e]

\* self.pipeline(name=, modifications=, desc=, references=): a pipeline whose
\* inputs and outputs are declared by the add() calls that follow.
new_pipeline(n) == [NoCall EXCEPT !.op = "create_pipeline", !.name = n]

\* pipeline.add(name, interface, inputs={field: (dataset, format)},
\*              connections={field: (node, output)},
\*              outputs={field: (dataset, format)})
\* i and o are sets of <<field, dataset, format>>, c of <<field, node, output>>.
add(n, k, i, c, o) ==
    [NoCall EXCEPT !.op = "add", !.node = n, !.iface = k, !.ins = i,
                   !.conns = c, !.outs = o]

NoOptions == << >>

\* pipeline.option(name): the caller's value when given, else the default.
Option(defaults, opts, n) ==
    IF n \in DOMAIN opts THEN opts[n] ELSE defaults[n]

\* Python truth value of an option value.
Truthy(v) == v \notin {"False", "None", "0", "0.0", ""}

(***************************************************************************)
(* MRIStudy (nianalysis/study/mri/base.py)                                 *)
(***************************************************************************)

brain_mask_defaults ==
    "robust" :> "True" @@ "f_threshold" :> "0.5" @@
    "reduce_bias" :> "False" @@ "g_threshold" :> "0.0"

\* brain_mask_pipeline setting the reduce_bias flag from option 'robust'.
brain_mask_pipeline_bias_from_robust(opts) ==
    << create_pipeline("brain_mask",
                       {<<"primary", "nifti_gz">>},
                       {<<"masked", "nifti_gz">>, <<"brain_mask", "nifti_gz">>},
                       brain_mask_defaults),
       create_node("BET", "bet"),
       set_input("bet", "mask", "True"),
       set_input("bet", "output_type", "NIFTI_GZ") >>
    \o (IF Truthy(Option(brain_mask_defaults, opts, "robust"))
        THEN << set_input("bet", "robust", "True") >> ELSE << >>)
    \o (IF Truthy(Option(brain_mask_defaults, opts, "robust"))
        THEN << set_input("bet", "reduce_bias", "True") >> ELSE << >>)
    \o << set_input("bet", "frac",
                    Option(brain_mask_defaults, opts, "f_threshold")),
          set_input("bet", "vertical_gradient",
                    Option(brain_mask_defaults, opts, "g_threshold")),
          connect_input("primary", "bet", "in_file"),
          connect_output("masked", "bet", "out_file"),
          connect_output("brain_mask", "bet", "mask_file"),
          assert_connected,
          return_pipeline >>

brain_mask_pipeline(opts) ==
    << create_pipeline("brain_mask",
                       {<<"primary", "nifti_gz">>},
                       {<<"masked", "nifti_gz">>, <<"brain_mask", "nifti_gz">>},
                       brain_mask_defaults),
       create_node("BET", "bet"),
       set_input("bet", "mask", "True"),
       set_input("bet", "output_type", "NIFTI_GZ") >>
    \o (IF Truthy(Option(brain_mask_defaults, opts, "robust"))
        THEN << set_input("bet", "robust", "True") >> ELSE << >>)
    \o (IF Truthy(Option(brain_mask_defaults, opts, "reduce_bias"))
        THEN << set_input("bet", "reduce_bias", "True") >> ELSE << >>)
    \o << set_input("bet", "frac",
                    Option(brain_mask_defaults, opts, "f_threshold")),
          set_input("bet", "vertical_gradient",
                    Option(brain_mask_defaults, opts, "g_threshold")),
          connect_input("primary", "bet", "in_file"),
          connect_output("masked", "bet", "out_file"),
          connect_output("brain_mask", "bet", "mask_file"),
          assert_connected,
          return_pipeline >>

fnirt_defaults ==
    "atlas" :> "MNI152" @@ "resolution" :> "2mm" @@
    "intensity_model" :> "global_non_linear_with_bias" @@
    "subsampling" :> <<4, 4, 2, 2, 1, 1>>

\* apply_mask computed from the default scheme instead of the option.
apply_mask_default_scheme(subsampling) ==
    [i \in DOMAIN fnirt_defaults["subsampling"] |->
        IF fnirt_defaults["subsampling"][i] = 1 THEN 1 ELSE 0]

\* [int(s == 1) for s in subsampling]
apply_mask(subsampling) ==
    [i \in DOMAIN subsampling |-> IF subsampling[i] = 1 THEN 1 ELSE 0]

\* The option handed to FNIRT as it is, None included.
intensity_mapping_model_as_given(opts) ==
    Option(fnirt_defaults, opts, "intensity_model")

\* intensity_model = option; if intensity_model is None: 'none'
intensity_mapping_model(opts) ==
    IF Option(fnirt_defaults, opts, "intensity_model") = "None"
    THEN "none"
    ELSE Option(fnirt_defaults, opts, "intensity_model")

\* in_fwhm is written in tenths (8, 6, 5, 4.5, 3, 2).
_fsl_fnirt_to_atlas_pipeline(opts) ==
    << create_pipeline("coregister_to_atlas_fnirt",
                       {<<"preproc", "nifti_gz">>, <<"brain_mask", "nifti_gz">>,
                        <<"masked", "nifti_gz">>},
                       {<<"coreg_to_atlas", "nifti_gz">>,
                        <<"coreg_to_atlas_coeff", "nifti_gz">>},
                       fnirt_defaults),
       create_node("Reorient2Std", "reorient"),
       set_input("reorient", "output_type", "NIFTI_GZ"),
       create_node("Reorient2Std", "reorient_mask"),
       set_input("reorient_mask", "output_type", "NIFTI_GZ"),
       create_node("Reorient2Std", "reorient_masked"),
       set_input("reorient_masked", "output_type", "NIFTI_GZ"),
       create_node("FLIRT", "flirt"),
       set_input("flirt", "reference", "ref_masked"),
       set_input("flirt", "dof", "12"),
       set_input("flirt", "output_type", "NIFTI_GZ"),
       create_node("FNIRT", "fnirt"),
       set_input("fnirt", "ref_file", "ref_atlas"),
       set_input("fnirt", "refmask_file", "ref_mask"),
       set_input("fnirt", "output_type", "NIFTI_GZ"),
       set_input("fnirt", "intensity_mapping_model",
                 intensity_mapping_model(opts)),
       set_input_list("fnirt", "subsampling_scheme",
                      Option(fnirt_defaults, opts, "subsampling")),
       set_input("fnirt", "fieldcoeff_file", "True"),
       set_input_list("fnirt", "in_fwhm", <<80, 60, 50, 45, 30, 20>>),
       set_input_list("fnirt", "ref_fwhm", <<8, 6, 5, 4, 2, 0>>),
       set_input_list("fnirt", "regularization_lambda",
                      <<300, 150, 100, 50, 40, 30>>),
       set_input_list("fnirt", "apply_intensity_mapping", <<1, 1, 1, 1, 1, 0>>),
       set_input_list("fnirt", "max_nonlin_iter", <<5, 5, 5, 5, 5, 10>>),
       set_input_list("fnirt", "apply_inmask",
                      apply_mask(Option(fnirt_defaults, opts, "subsampling"))),
       set_input_list("fnirt", "apply_refmask",
                      apply_mask(Option(fnirt_defaults, opts, "subsampling"))),
       connect("reorient_masked", "out_file", "flirt", "in_file"),
       connect("reorient", "out_file", "fnirt", "in_file"),
       connect("reorient_mask", "out_file", "fnirt", "inmask_file"),
       connect("flirt", "out_matrix_file", "fnirt", "affine_file"),
       connect_input("preproc", "reorient", "in_file"),
       connect_input("brain_mask", "reorient_mask", "in_file"),
       connect_input("masked", "reorient_masked", "in_file"),
       connect_output("coreg_to_atlas", "fnirt", "warped_file"),
       connect_output("coreg_to_atlas_coeff", "fnirt", "fieldcoeff_file"),
       assert_connected,
       return_pipeline >>

\* The keyword arguments left in **options once the named parameters of the
\* signature have been bound.
Without(opts, names) == [n \in DOMAIN opts \ names |-> opts[n]]

\* coregister_to_atlas_pipeline falling back to FNIRT for an unrecognised
\* tool.
coregister_to_atlas_pipeline_fallback(opts) ==
    _fsl_fnirt_to_atlas_pipeline(Without(opts, {"atlas_reg_tool"}))

coregister_to_atlas_pipeline(opts) ==
    IF Option("atlas_reg_tool" :> "fnirt", opts, "atlas_reg_tool") = "fnirt"
    THEN _fsl_fnirt_to_atlas_pipeline(Without(opts, {"atlas_reg_tool"}))
    ELSE << raise("NiAnalysisError") >>

segmentation_defaults == "img_type" :> "2"

\* segmentation_pipeline taking 'wm_seg' from the third part of the split.
segmentation_pipeline_third_part(opts) ==
    << create_pipeline("FAST_segmentation",
                       {<<"masked", "nifti_gz">>},
                       {<<"wm_seg", "nifti_gz">>},
                       segmentation_defaults),
       create_node("FAST", "fast"),
       set_input("fast", "img_type",
                 Option(segmentation_defaults, opts, "img_type")),
       set_input("fast", "segments", "True"),
       set_input("fast", "out_basename", "Reference_segmentation"),
       connect_input("masked", "fast", "in_files"),
       create_node("Split", "split"),
       set_input_list("split", "splits", <<1, 1, 1>>),
       set_input("split", "squeeze", "True"),
       connect("fast", "tissue_class_files", "split", "inlist"),
       connect_output("wm_seg", "split", "out3"),
       assert_connected,
       return_pipeline >>

segmentation_pipeline(opts) ==
    << create_pipeline("FAST_segmentation",
                       {<<"masked", "nifti_gz">>},
                       {<<"wm_seg", "nifti_gz">>},
                       segmentation_defaults),
       create_node("FAST", "fast"),
       set_input("fast", "img_type",
                 Option(segmentation_defaults, opts, "img_type")),
       set_input("fast", "segments", "True"),
       set_input("fast", "out_basename", "Reference_segmentation"),
       connect_input("masked", "fast", "in_files"),
       create_node("Split", "split"),
       set_input_list("split", "splits", <<1, 1, 1>>),
       set_input("split", "squeeze", "True"),
       connect("fast", "tissue_class_files", "split", "inlist"),
       connect_output("wm_seg", "split", "out2"),
       assert_connected,
       return_pipeline >>

basic_preproc_defaults ==
    "new_dims" :> "('RL', 'AP', 'IS')" @@ "resolution" :> "None"

\* basic_preproc_pipeline testing the truth value of 'resolution' instead
\* of comparing it with None.
basic_preproc_pipeline_if_resolution(opts) ==
    << create_pipeline("fslswapdim_pipeline",
                       {<<"masked", "nifti_gz">>},
                       {<<"preproc", "nifti_gz">>},
                       basic_preproc_defaults),
       create_node("SwapDimensions", "fslswapdim"),
       set_input("fslswapdim", "new_dims",
                 Option(basic_preproc_defaults, opts, "new_dims")),
       connect_input("masked", "fslswapdim", "in_file") >>
    \o (IF Truthy(Option(basic_preproc_defaults, opts, "resolution"))
        THEN << create_node("MRResize", "resample"),
                set_input("resample", "voxel",
                          Option(basic_preproc_defaults, opts, "resolution")),
                connect("fslswapdim", "out_file", "resample", "in_file"),
                connect_output("preproc", "resample", "out_file") >>
        ELSE << connect_output("preproc", "fslswapdim", "out_file") >>)
    \o << assert_connected, return_pipeline >>

basic_preproc_pipeline(opts) ==
    << create_pipeline("fslswapdim_pipeline",
                       {<<"masked", "nifti_gz">>},
                       {<<"preproc", "nifti_gz">>},
                       basic_preproc_defaults),
       create_node("SwapDimensions", "fslswapdim"),
       set_input("fslswapdim", "new_dims",
                 Option(basic_preproc_defaults, opts, "new_dims")),
       connect_input("masked", "fslswapdim", "in_file") >>
    \o (IF Option(basic_preproc_defaults, opts, "resolution") # "None"
        THEN << create_node("MRResize", "resample"),
                set_input("resample", "voxel",
                          Option(basic_preproc_defaults, opts, "resolution")),
                connect("fslswapdim", "out_file", "resample", "in_file"),
                connect_output("preproc", "resample", "out_file") >>
        ELSE << connect_output("preproc", "fslswapdim", "out_file") >>)
    \o << assert_connected, return_pipeline >>

header_info_extraction_pipeline(opts) ==
    << create_pipeline("header_info_extraction",
                       {<<"dicom_file", "dicom">>},
                       {<<"tr", "float">>, <<"start_time", "str">>,
                        <<"tot_duration", "str">>, <<"real_duration", "str">>,
                        <<"ped", "str">>, <<"phase_offset", "str">>},
                       NoOptions),
       create_node("DicomHeaderInfoExtraction", "hd_info_extraction"),
       set_input("hd_info_extraction", "multivol", "True"),
       connect_input("dicom_file", "hd_info_extraction", "dicom_folder"),
       connect_output("tr", "hd_info_extraction", "tr"),
       connect_output("start_time", "hd_info_extraction", "start_time"),
       connect_output("tot_duration", "hd_info_extraction", "tot_duration"),
       connect_output("real_duration", "hd_info_extraction", "real_duration"),
       connect_output("ped", "hd_info_extraction", "ped"),
       connect_output("phase_offset", "hd_info_extraction", "phase_offset"),
       assert_connected,
       return_pipeline >>

eddy_pipeline(opts) ==
    << create_pipeline("dwi_eddy",
                       {<<"dicom_dwi", "dicom">>, <<"dicom_dwi_1", "dicom">>},
                       {<<"dwipreproc", "nifti_gz">>,
                        <<"eddy_par", "eddy_par">>},
                       NoOptions),
       create_node("Dcm2niix", "converter1"),
       set_input("converter1", "compression", "y"),
       connect_input("dicom_dwi", "converter1", "input_dir"),
       create_node("Dcm2niix", "converter2"),
       set_input("converter2", "compression", "y"),
       connect_input("dicom_dwi_1", "converter2", "input_dir"),
       create_node("PrepareDWI", "prepare_dwi"),
       set_input("prepare_dwi", "pe_dir", "ROW"),
       set_input("prepare_dwi", "phase_offset", "-1.5"),
       connect("converter1", "converted", "prepare_dwi", "dwi"),
       connect("converter2", "converted", "prepare_dwi", "dwi1"),
       create_node("CheckDwiNames", "check_names"),
       connect("prepare_dwi", "main", "check_names", "nifti_dwi"),
       connect_input("dicom_dwi", "check_names", "dicom_dwi"),
       connect_input("dicom_dwi_1", "check_names", "dicom_dwi1"),
       create_node("ExtractROI", "extract_roi"),
       set_input("extract_roi", "t_min", "0"),
       set_input("extract_roi", "t_size", "1"),
       connect("prepare_dwi", "main", "extract_roi", "in_file"),
       create_node("merge_lists", "merge_files"),
       connect("extract_roi", "roi_file", "merge_files", "in1"),
       connect("prepare_dwi", "secondary", "merge_files", "in2"),
       create_node("fsl_merge", "fsl_merge"),
       set_input("fsl_merge", "dimension", "t"),
       connect("merge_files", "out", "fsl_merge", "in_files"),
       create_node("DWIPreproc", "dwipreproc"),
       set_input("dwipreproc", "eddy_options", "--data_is_shelled "),
       set_input("dwipreproc", "rpe_pair", "True"),
       set_input("dwipreproc", "out_file_ext", ".nii.gz"),
       set_input("dwipreproc", "temp_dir", "dwipreproc_tempdir"),
       connect("fsl_merge", "merged_file", "dwipreproc", "se_epi"),
       connect("prepare_dwi", "pe", "dwipreproc", "pe_dir"),
       connect("check_names", "main", "dwipreproc", "in_file"),
       connect_output("dwipreproc", "dwipreproc", "out_file"),
       connect_output("eddy_par", "dwipreproc", "eddy_parameters"),
       assert_connected,
       return_pipeline >>

topup_pipeline(opts) ==
    << create_pipeline("dwi_topup",
                       {<<"dwi", "nifti_gz">>, <<"dwi_1", "nifti_gz">>},
                       {<<"dwi_distorted1", "nifti_gz">>,
                        <<"dwi_distorted2", "nifti_gz">>},
                       NoOptions),
       create_node("PrepareDWI", "prepare_dwi"),
       set_input("prepare_dwi", "pe_dir", "ROW"),
       set_input("prepare_dwi", "phase_offset", "-1.5"),
       connect_input("dwi", "prepare_dwi", "dwi"),
       connect_input("dwi_1", "prepare_dwi", "dwi1"),
       create_node("GenTopupConfigFiles", "gen_config1"),
       connect("prepare_dwi", "pe", "gen_config1", "ped"),
       create_node("merge_lists", "merge_files1"),
       connect("prepare_dwi", "main", "merge_files1", "in1"),
       connect("prepare_dwi", "secondary", "merge_files1", "in2"),
       create_node("fsl_merge", "fsl_merge1"),
       set_input("fsl_merge1", "dimension", "t"),
       connect("merge_files1", "out", "fsl_merge1", "in_files"),
       create_node("TOPUP", "topup1"),
       connect("fsl_merge1", "merged_file", "topup1", "in_file"),
       connect("gen_config1", "config_file", "topup1", "encoding_file"),
       create_node("merge_lists", "in_apply_tp1"),
       connect("prepare_dwi", "main", "in_apply_tp1", "in1"),
       create_node("ApplyTOPUP", "applytopup1"),
       set_input("applytopup1", "method", "jac"),
       set_input_list("applytopup1", "in_index", <<1>>),
       connect("in_apply_tp1", "out", "applytopup1", "in_files"),
       connect("gen_config1", "apply_topup_config", "applytopup1",
               "encoding_file"),
       connect("topup1", "out_movpar", "applytopup1", "in_topup_movpar"),
       connect("topup1", "out_fieldcoef", "applytopup1",
               "in_topup_fieldcoef"),
       return_pipeline >>

(***************************************************************************)
(* T1Study (nianalysis/study/mri/structural/t1.py)                         *)
(***************************************************************************)

freesurfer_pipeline(opts) ==
    << new_pipeline("segmentation"),
       add("recon_all", "ReconAll",
           {<<"T1_files", "magnitude", "nifti_gz">>}, {}, {}),
       add("join", "JoinPath", {},
           {<<"dirname", "recon_all", "subjects_dir">>,
            <<"filename", "recon_all", "subject_id">>},
           {<<"path", "fs_recon_all", "freesurfer_recon_all">>}),
       return_pipeline >>

\* T1Study.segmentation_pipeline letting the caller's img_type replace 1.
T1Study_segmentation_pipeline_caller_wins(opts) ==
    segmentation_pipeline(opts @@ ("img_type" :> "1"))

\* super().segmentation_pipeline(img_type=1, **mods): a caller-supplied
\* img_type is a repeated keyword argument.
T1Study_segmentation_pipeline(opts) ==
    IF "img_type" \in DOMAIN opts
    THEN << raise("TypeError") >>
    ELSE segmentation_pipeline(("img_type" :> "1") @@ opts)

bet_T1(opts) ==
    << new_pipeline("BET_T1"),
       add("n4_bias_correction", "N4BiasFieldCorrection",
           {<<"input_image", "t1", "nifti_gz">>}, {}, {}),
       add("bet", "BET", {},
           {<<"in_file", "n4_bias_correction", "output_image">>},
           {<<"out_file", "betted_T1", "nifti_gz">>,
            <<"mask_file", "betted_T1_mask", "nifti_gz">>}),
       return_pipeline >>

cet_T1(opts) ==
    << new_pipeline("CET_T1"),
       add("merge_transforms", "Merge",
           {<<"in2", "_lookup_nl_tfm_inv_name('MNI')", "nifti_gz">>,
            <<"in1", "_lookup_l_tfm_to_name('MNI')", "nifti_gz">>}, {}, {}),
       add("ApplyTransform", "ApplyTransforms",
           {<<"reference_image", "betted_T1", "nifti_gz">>,
            <<"input_image", "suit_mask", "nifti_gz">>},
           {<<"transforms", "merge_transforms", "out">>}, {}),
       add("maths2", "ImageMaths",
           {<<"in_file", "betted_T1", "nifti_gz">>},
           {<<"in_file2", "ApplyTransform", "output_image">>},
           {<<"out_file", "cetted_T1", "nifti_gz">>,
            <<"output_image", "cetted_T1_mask", "nifti_gz">>}),
       return_pipeline >>

(***************************************************************************)
(* T2StarStudy (nianalysis/study/mri/structural/t2star.py)                 *)
(***************************************************************************)

\* qsm_pipeline without the connection of the brain mask to the
\* reconstruction.
qsm_pipeline_unmasked(opts) ==
    << create_pipeline("qsmrecon",
                       {<<"kspace", "directory">>},
                       {<<"qsm", "nifti_gz">>, <<"tissue_phase", "nifti_gz">>,
                        <<"tissue_mask", "nifti_gz">>,
                        <<"qsm_mask", "nifti_gz">>},
                       NoOptions),
       create_node("Prepare", "prepare"),
       create_node("BET", "bet"),
       set_input("bet", "reduce_bias", "True"),
       set_input("bet", "frac", "0.3"),
       set_input("bet", "mask", "True"),
       create_node("STI", "qsmrecon"),
       connect_input("kspace", "prepare", "in_dir"),
       connect_output("qsm_mask", "bet", "mask_file"),
       connect_output("qsm", "qsmrecon", "qsm"),
       connect_output("tissue_phase", "qsmrecon", "tissue_phase"),
       connect_output("tissue_mask", "qsmrecon", "tissue_mask"),
       connect("prepare", "out_file", "bet", "in_file"),
       connect("prepare", "out_dir", "qsmrecon", "in_dir"),
       assert_connected,
       return_pipeline >>

qsm_pipeline(opts) ==
    << create_pipeline("qsmrecon",
                       {<<"kspace", "directory">>},
                       {<<"qsm", "nifti_gz">>, <<"tissue_phase", "nifti_gz">>,
                        <<"tissue_mask", "nifti_gz">>,
                        <<"qsm_mask", "nifti_gz">>},
                       NoOptions),
       create_node("Prepare", "prepare"),
       create_node("BET", "bet"),
       set_input("bet", "reduce_bias", "True"),
       set_input("bet", "frac", "0.3"),
       set_input("bet", "mask", "True"),
       create_node("STI", "qsmrecon"),
       connect_input("kspace", "prepare", "in_dir"),
       connect_output("qsm_mask", "bet", "mask_file"),
       connect_output("qsm", "qsmrecon", "qsm"),
       connect_output("tissue_phase", "qsmrecon", "tissue_phase"),
       connect_output("tissue_mask", "qsmrecon", "tissue_mask"),
       connect("prepare", "out_file", "bet", "in_file"),
       connect("bet", "mask_file", "qsmrecon", "mask_file"),
       connect("prepare", "out_dir", "qsmrecon", "in_dir"),
       assert_connected,
       return_pipeline >>

(***************************************************************************)
(* DummyStudy (test/unittests/study/test_study.py)                         *)
(***************************************************************************)

\* pipeline1 with the second output wired under the first output's name.
pipeline1_repeated_output(opts) ==
    << create_pipeline("pipeline1",
                       {<<"start", "nifti_gz">>},
                       {<<"pipeline1_1", "nifti_gz">>,
                        <<"pipeline1_2", "nifti_gz">>},
                       NoOptions),
       create_node("MRConvert", "convert1"),
       create_node("MRConvert", "convert2"),
       connect_input("start", "convert1", "in_file"),
       connect_input("start", "convert2", "in_file"),
       connect_output("pipeline1_1", "convert1", "out_file"),
       connect_output("pipeline1_1", "convert2", "out_file"),
       assert_connected,
       return_pipeline >>

pipeline1(opts) ==
    << create_pipeline("pipeline1",
                       {<<"start", "nifti_gz">>},
                       {<<"pipeline1_1", "nifti_gz">>,
                        <<"pipeline1_2", "nifti_gz">>},
                       NoOptions),
       create_node("MRConvert", "convert1"),
       create_node("MRConvert", "convert2"),
       connect_input("start", "convert1", "in_file"),
       connect_input("start", "convert2", "in_file"),
       connect_output("pipeline1_1", "convert1", "out_file"),
       connect_output("pipeline1_2", "convert2", "out_file"),
       assert_connected,
       return_pipeline >>

pipeline2(opts) ==
    << create_pipeline("pipeline2",
                       {<<"start", "nifti_gz">>, <<"pipeline1_1", "nifti_gz">>},
                       {<<"pipeline2", "nifti_gz">>},
                       NoOptions),
       create_node("MRCat", "mrcat"),
       set_input("mrcat", "axis", "0"),
       connect_input("start", "mrcat", "first_scan"),
       connect_input("pipeline1_1", "mrcat", "second_scan"),
       connect_output("pipeline2", "mrcat", "out_file"),
       assert_connected,
       return_pipeline >>

\* pipeline3 reading the acquired 'start' instead of 'pipeline2'.
pipeline3_reads_start(opts) ==
    << create_pipeline("pipeline3",
                       {<<"start", "nifti_gz">>},
                       {<<"pipeline3", "nifti_gz">>},
                       NoOptions),
       create_node("MRConvert", "convert"),
       connect_input("start", "convert", "in_file"),
       connect_output("pipeline3", "convert", "out_file"),
       assert_connected,
       return_pipeline >>

pipeline3(opts) ==
    << create_pipeline("pipeline3",
                       {<<"pipeline2", "nifti_gz">>},
                       {<<"pipeline3", "nifti_gz">>},
                       NoOptions),
       create_node("MRConvert", "convert"),
       connect_input("pipeline2", "convert", "in_file"),
       connect_output("pipeline3", "convert", "out_file"),
       assert_connected,
       return_pipeline >>

\* pipeline4 declaring its input in another format than the registry's.
pipeline4_other_format(opts) ==
    << create_pipeline("pipeline4",
                       {<<"pipeline3", "mrtrix">>},
                       {<<"pipeline4", "nifti_gz">>},
                       NoOptions),
       create_node("MRConvert", "convert"),
       connect_input("pipeline3", "convert", "in_file"),
       connect_output("pipeline4", "convert", "out_file"),
       assert_connected,
       return_pipeline >>

pipeline4(opts) ==
    << create_pipeline("pipeline4",
                       {<<"pipeline3", "nifti_gz">>},
                       {<<"pipeline4", "nifti_gz">>},
                       NoOptions),
       create_node("MRConvert", "convert"),
       connect_input("pipeline3", "convert", "in_file"),
       connect_output("pipeline4", "convert", "out_file"),
       assert_connected,
       return_pipeline >>

\* subject_summary_pipeline combining the sessions with 'max'.
subject_summary_pipeline_max(opts) ==
    << create_pipeline("subject_summary",
                       {<<"ones_slice", "mrtrix">>},
                       {<<"subject_summary", "mrtrix">>},
                       NoOptions),
       create_join_node("MRMath", "sessions", "mrmath"),
       set_input("mrmath", "operation", "max"),
       connect_input("ones_slice", "mrmath", "in_files"),
       connect_output("subject_summary", "mrmath", "out_file"),
       assert_connected,
       return_pipeline >>

subject_summary_pipeline(opts) ==
    << create_pipeline("subject_summary",
                       {<<"ones_slice", "mrtrix">>},
                       {<<"subject_summary", "mrtrix">>},
                       NoOptions),
       create_join_node("MRMath", "sessions", "mrmath"),
       set_input("mrmath", "operation", "sum"),
       connect_input("ones_slice", "mrmath", "in_files"),
       connect_output("subject_summary", "mrmath", "out_file"),
       assert_connected,
       return_pipeline >>

\* project_summary_pipeline combining the subjects with 'max'.
project_summary_pipeline_max(opts) ==
    << create_pipeline("project_summary",
                       {<<"ones_slice", "mrtrix">>},
                       {<<"project_summary", "mrtrix">>},
                       NoOptions),
       create_join_node("MRMath", "sessions", "mrmath1"),
       create_join_node("MRMath", "subjects", "mrmath2"),
       set_input("mrmath1", "operation", "sum"),
       set_input("mrmath2", "operation", "max"),
       connect_input("ones_slice", "mrmath1", "in_files"),
       connect("mrmath1", "out_file", "mrmath2", "in_files"),
       connect_output("project_summary", "mrmath2", "out_file"),
       assert_connected,
       return_pipeline >>

project_summary_pipeline(opts) ==
    << create_pipeline("project_summary",
                       {<<"ones_slice", "mrtrix">>},
                       {<<"project_summary", "mrtrix">>},
                       NoOptions),
       create_join_node("MRMath", "sessions", "mrmath1"),
       create_join_node("MRMath", "subjects", "mrmath2"),
       set_input("mrmath1", "operation", "sum"),
       set_input("mrmath2", "operation", "sum"),
       connect_input("ones_slice", "mrmath1", "in_files"),
       connect("mrmath1", "out_file", "mrmath2", "in_files"),
       connect_output("project_summary", "mrmath2", "out_file"),
       assert_connected,
       return_pipeline >>

(***************************************************************************)
(* ConversionStudy (test/unittests/test_converters.py)                     *)
(***************************************************************************)

\* conv_pipeline with 'nifti_from_mrtrix' fed from the 'nifti_gz' input.
conv_pipeline_wrong_input(opts) ==
    << create_pipeline("conv_pipeline",
                       {<<"mrtrix", "text">>, <<"nifti_gz", "text">>,
                        <<"dicom", "text">>, <<"directory", "directory">>,
                        <<"zip", "directory">>},
                       {<<"nifti_gz_from_dicom", "text">>,
                        <<"mrtrix_from_nifti_gz", "text">>,
                        <<"nifti_from_mrtrix", "text">>,
                        <<"directory_from_zip", "directory">>,
                        <<"zip_from_directory", "directory">>},
                       NoOptions),
       add("nifti_gz_from_dicom", "IdentityInterface", {}, {}, {}),
       connect_input("dicom", "nifti_gz_from_dicom", "file"),
       connect_output("nifti_gz_from_dicom", "nifti_gz_from_dicom", "file"),
       add("mrtrix_from_nifti_gz", "IdentityInterface", {}, {}, {}),
       connect_input("nifti_gz", "mrtrix_from_nifti_gz", "file"),
       connect_output("mrtrix_from_nifti_gz", "mrtrix_from_nifti_gz", "file"),
       add("nifti_from_mrtrix", "IdentityInterface", {}, {}, {}),
       connect_input("nifti_gz", "nifti_from_mrtrix", "file"),
       connect_output("nifti_from_mrtrix", "nifti_from_mrtrix", "file"),
       add("directory_from_zip", "IdentityInterface", {}, {}, {}),
       connect_input("zip", "directory_from_zip", "file"),
       connect_output("directory_from_zip", "directory_from_zip", "file"),
       add("zip_from_directory", "IdentityInterface", {}, {}, {}),
       connect_input("directory", "zip_from_directory", "file"),
       connect_output("zip_from_directory", "zip_from_directory", "file"),
       return_pipeline >>

conv_pipeline(opts) ==
    << create_pipeline("conv_pipeline",
                       {<<"mrtrix", "text">>, <<"nifti_gz", "text">>,
                        <<"dicom", "text">>, <<"directory", "directory">>,
                        <<"zip", "directory">>},
                       {<<"nifti_gz_from_dicom", "text">>,
                        <<"mrtrix_from_nifti_gz", "text">>,
                        <<"nifti_from_mrtrix", "text">>,
                        <<"directory_from_zip", "directory">>,
                        <<"zip_from_directory", "directory">>},
                       NoOptions),
       add("nifti_gz_from_dicom", "IdentityInterface", {}, {}, {}),
       connect_input("dicom", "nifti_gz_from_dicom", "file"),
       connect_output("nifti_gz_from_dicom", "nifti_gz_from_dicom", "file"),
       add("mrtrix_from_nifti_gz", "IdentityInterface", {}, {}, {}),
       connect_input("nifti_gz", "mrtrix_from_nifti_gz", "file"),
       connect_output("mrtrix_from_nifti_gz", "mrtrix_from_nifti_gz", "file"),
       add("nifti_from_mrtrix", "IdentityInterface", {}, {}, {}),
       connect_input("mrtrix", "nifti_from_mrtrix", "file"),
       connect_output("nifti_from_mrtrix", "nifti_from_mrtrix", "file"),
       add("directory_from_zip", "IdentityInterface", {}, {}, {}),
       connect_input("zip", "directory_from_zip", "file"),
       connect_output("directory_from_zip", "directory_from_zip", "file"),
       add("zip_from_directory", "IdentityInterface", {}, {}, {}),
       connect_input("directory", "zip_from_directory", "file"),
       connect_output("zip_from_directory", "zip_from_directory", "file"),
       return_pipeline >>

(***************************************************************************)
(* T1AndT2Dataset (nianalysis/dataset/mri/multi.py)                        *)
(***************************************************************************)

\* inputs and outputs are given by name and carry the format of the
\* component of that name; tolerance is written in thousandths.
coregistration_pipeline(opts) ==
    << create_pipeline("coregistration",
                       {<<"t1", "nifti">>, <<"t2", "nifti">>},
                       {<<"t2_coreg", "nifti">>},
                       NoOptions),
       create_node("Coregister", "coreg"),
       set_input("coreg", "jobtype", "estwrite"),
       set_input("coreg", "cost_function", "nmi"),
       set_input_list("coreg", "separation", <<4, 2>>),
       set_input_list("coreg", "tolerance",
                      <<20, 20, 20, 1, 1, 1, 10, 10, 10, 1, 1, 1>>),
       set_input_list("coreg", "fwhm", <<7, 7>>),
       set_input("coreg", "write_interp", "4"),
       set_input_list("coreg", "write_wrap", <<0, 0, 0>>),
       set_input("coreg", "write_mask", "False"),
       set_input("coreg", "out_prefix", "r"),
       connect_input("t1", "coreg", "target"),
       connect_input("t2", "coreg", "source"),
       connect_output("t2_coreg", "coreg", "coregistered_source"),
       assert_connected,
       return_pipeline >>

(***************************************************************************)
(* Method dispatch                                                         *)
(***************************************************************************)

\* The calls made by method m as defined in class d, given the caller's
\* keyword arguments.
Body(d, m, opts) ==
    CASE d = "MRIStudy" /\ m = "brain_mask_pipeline" ->
            brain_mask_pipeline(opts)
      [] d = "MRIStudy" /\ m = "coregister_to_atlas_pipeline" ->
            coregister_to_atlas_pipeline(opts)
      [] d = "MRIStudy" /\ m = "_fsl_fnirt_to_atlas_pipeline" ->
            _fsl_fnirt_to_atlas_pipeline(opts)
      [] d = "MRIStudy" /\ m = "segmentation_pipeline" ->
            segmentation_pipeline(opts)
      [] d = "MRIStudy" /\ m = "basic_preproc_pipeline" ->
            basic_preproc_pipeline(opts)
      [] d = "MRIStudy" /\ m = "header_info_extraction_pipeline" ->
            header_info_extraction_pipeline(opts)
      [] d = "MRIStudy" /\ m = "eddy_pipeline" -> eddy_pipeline(opts)
      [] d = "MRIStudy" /\ m = "topup_pipeline" -> topup_pipeline(opts)
      [] d = "T1Study" /\ m = "freesurfer_pipeline" ->
            freesurfer_pipeline(opts)
      [] d = "T1Study" /\ m = "segmentation_pipeline" ->
            T1Study_segmentation_pipeline(opts)
      [] d = "T1Study" /\ m = "bet_T1" -> bet_T1(opts)
      [] d = "T1Study" /\ m = "cet_T1" -> cet_T1(opts)
      [] d = "T2StarStudy" /\ m = "qsm_pipeline" -> qsm_pipeline(opts)
      [] d = "DummyStudy" /\ m = "pipeline1" -> pipeline1(opts)
      [] d = "DummyStudy" /\ m = "pipeline2" -> pipeline2(opts)
      [] d = "DummyStudy" /\ m = "pipeline3" -> pipeline3(opts)
      [] d = "DummyStudy" /\ m = "pipeline4" -> pipeline4(opts)
      [] d = "DummyStudy" /\ m = "subject_summary_pipeline" ->
            subject_summary_pipeline(opts)
      [] d = "DummyStudy" /\ m = "project_summary_pipeline" ->
            project_summary_pipeline(opts)
      [] d = "ConversionStudy" /\ m = "conv_pipeline" -> conv_pipeline(opts)
      [] d = "T1AndT2Dataset" /\ m = "coregistration_pipeline" ->
            coregistration_pipeline(opts)
      [] OTHER -> << >>

\* Every method name reachable by attribute lookup on class c.
MethodsOf(c) == UNION {Defines(Bases(c)[i]) : i \in DOMAIN Bases(c)}

(***************************************************************************)
(* The pipeline object                                                     *)
(***************************************************************************)

EmptyPipeline ==
    [name |-> "", inputs |-> {}, outputs |-> {}, default_options |-> << >>,
     nodes |-> {}, settings |-> {}, input_conns |-> {}, output_conns |-> {},
     conns |-> {}]

\* The effect of one framework call on the pipeline object.
\*   inputs, outputs : {<<dataset, format>>}
\*   nodes           : {<<node, interface, joinsource>>}
\*   settings        : {<<node, field, value, list>>}
\*   input_conns, output_conns : {<<dataset, node, field>>}
\*   conns           : {<<source node, source field, node, field>>}
Apply(p, c) ==
    CASE c.op = "create_pipeline" ->
            [EmptyPipeline EXCEPT !.name = c.name, !.inputs = c.ins,
                                  !.outputs = c.outs,
                                  !.default_options = c.defaults]
      [] c.op = "create_node" ->
            [p EXCEPT !.nodes = @ \cup {<<c.node, c.iface, c.join>>}]
      [] c.op = "set_input" ->
            [p EXCEPT !.settings =
                {s \in @ : ~(s[1] = c.node /\ s[2] = c.field)}
                \cup {<<c.node, c.field, c.value, c.list>>}]
      [] c.op = "connect_input" ->
            [p EXCEPT !.input_conns = @ \cup {<<c.name, c.node, c.field>>}]
      [] c.op = "connect_output" ->
            [p EXCEPT !.output_conns = @ \cup {<<c.name, c.node, c.field>>}]
      [] c.op = "connect" ->
            [p EXCEPT !.conns = @ \cup {<<c.src, c.sfield, c.node, c.field>>}]
      [] c.op = "add" ->
            [p EXCEPT
                !.nodes = @ \cup {<<c.node, c.iface, "">>},
                !.inputs = @ \cup {<<i[2], i[3]>> : i \in c.ins},
                !.input_conns = @ \cup {<<i[2], c.node, i[1]>> : i \in c.ins},
                !.conns = @ \cup {<<x[2], x[3], c.node, x[1]>> : x \in c.conns},
                !.outputs = @ \cup {<<o[2], o[3]>> : o \in c.outs},
                !.output_conns = @ \cup {<<o[2], c.node, o[1]>> : o \in c.outs}]
      [] OTHER -> p

InputNames(p) == {i[1] : i \in p.inputs}
OutputNames(p) == {o[1] : o \in p.outputs}

\* How many times a declared name has been wired.
InputConnections(p, n) == Cardinality({c \in p.input_conns : c[1] = n})
OutputConnections(p, n) == Cardinality({c \in p.output_conns : c[1] = n})

\* pipeline.assert_connected(): the declared names that nothing was wired to.
Unconnected(p) ==
    {n \in InputNames(p) : InputConnections(p, n) = 0}
    \cup {n \in OutputNames(p) : OutputConnections(p, n) = 0}

\* The pipeline a method builds when it runs to its return statement:
\* every call of the body applied in order.
RECURSIVE ApplyAll(_, _, _)
ApplyAll(p, body, i) ==
    IF i > Len(body) THEN p ELSE ApplyAll(Apply(p, body[i]), body, i + 1)

Built(d, m, opts) == ApplyAll(EmptyPipeline, Body(d, m, opts), 1)

(***************************************************************************)
(* Keyword arguments tried by the callers                                  *)
(***************************************************************************)

\* Longest subsampling scheme a caller passes, and the factors it is made of.
MaxLevels == 2
SubsamplingFactors == {1, 2}

\* The subsampling schemes tried: every list of factors up to MaxLevels long.
SubsamplingSchemes ==
    UNION {[1..n -> SubsamplingFactors] : n \in 0..MaxLevels}

\* All ways of passing some of the named options, each with one of its values.
Kwargs(names, values) ==
    UNION {{f \in [D -> values] : TRUE} : D \in SUBSET names}

CallerOptions(m) ==
    CASE m = "brain_mask_pipeline" ->
            {a @@ b : a \in Kwargs({"robust", "reduce_bias"}, {"True", "False"}),
                      b \in Kwargs({"f_threshold", "g_threshold"},
                                   {"0.3", "0.0"})}
      [] m = "coregister_to_atlas_pipeline" ->
            {a @@ b : a \in Kwargs({"atlas_reg_tool"},
                                   {"fnirt", "ants", "flirt"}),
                      b \in Kwargs({"subsampling"}, {<<2, 1>>})}
      [] m = "_fsl_fnirt_to_atlas_pipeline" ->
            {a @@ b : a \in Kwargs({"subsampling"}, SubsamplingSchemes),
                      b \in Kwargs({"intensity_model"},
                                   {"None", "global_linear"})}
      [] m = "basic_preproc_pipeline" ->
            Kwargs({"resolution"}, {"None", "[1, 1, 1]", "0"})
      [] m = "segmentation_pipeline" ->
            Kwargs({"img_type"}, {"1", "3"})
      [] OTHER -> {NoOptions}

(***************************************************************************)
(* Construction: one action per framework call                             *)
(***************************************************************************)

NoStore == << >>

InitBuild ==
    /\ cls \in StudyClasses \cup DatasetClasses
    /\ resolving = << >>
    /\ inherited \in (IF cls \in DatasetClasses THEN ParentGenerated
                      ELSE {NoInherited})
    /\ target = ""
    /\ method = <<"", "">>
    /\ options = NoOptions
    /\ pc = 0
    /\ pipeline = EmptyPipeline
    /\ validated = FALSE
    /\ status = "idle"
    /\ error = ""
    /\ scenario = ""
    /\ step = 0
    /\ scheduled = {}
    /\ store = NoStore
    /\ generated = NoStore
    /\ files = {}

CurrentBody == Body(method[1], method[2], options)

\* The next call of the method being executed.
AtCall(kind) ==
    /\ status = "building"
    /\ pc < Len(CurrentBody)
    /\ CurrentBody[pc + 1].op = kind

NextCall == CurrentBody[pc + 1]

\* study.<m>(**o): a direct call of a pipeline-construction method.
CallMethod(m, o) ==
    /\ status = "idle"
    /\ m \in MethodsOf(cls)
    /\ o \in CallerOptions(m)
    /\ method' = <<Resolve(cls, m), m>>
    /\ options' = o
    /\ target' = ""
    /\ status' = "building"
    /\ pc' = 0
    /\ UNCHANGED <<cls, pipeline, validated, error>>
    /\ UNCHANGED <<runVars, resolving>>

\* The registry entry of dataset n names its producing method, which is
\* looked up on the class and called with no options.
Lookup(n) ==
    /\ \E i \in Entries(cls, n) :
          LET e == Registry(cls)[i] IN
          /\ e.pipeline # Acquired
          /\ ~ProducedOutside(cls, e.pipeline)
          /\ target' = n
          /\ method' = <<Resolve(cls, e.pipeline), e.pipeline>>
          /\ IF Resolve(cls, e.pipeline) = ""
             THEN status' = "raised" /\ error' = "AttributeError"
             ELSE status' = "building" /\ error' = ""
    /\ options' = NoOptions
    /\ pc' = 0
    /\ UNCHANGED cls
    /\ UNCHANGED runVars

\* A dataset of the registry is requested: its producer is looked up.
LookupProducer(n) ==
    /\ status = "idle"
    /\ Lookup(n)
    /\ resolving' = << n >>
    /\ UNCHANGED <<pipeline, validated>>

\* The pipeline built for a registered dataset declares input n, itself a
\* derived dataset of the registry: the producer of n is looked up in turn.
\* A chain longer than the registry has named some dataset twice and is not
\* followed further.
ResolvePrerequisite(n) ==
    /\ status = "returned"
    /\ target # ""
    /\ n \in InputNames(pipeline)
    /\ Len(resolving) <= Cardinality(RegistryNames(cls))
    /\ Lookup(n)
    /\ resolving' = Append(resolving, n)
    /\ pipeline' = EmptyPipeline
    /\ validated' = FALSE

\* A call that only changes the pipeline object.
Advance ==
    /\ pipeline' = Apply(pipeline, NextCall)
    /\ pc' = pc + 1
    /\ UNCHANGED <<cls, target, method, options, status, error>>
    /\ UNCHANGED <<runVars, resolving>>

CreatePipeline ==
    /\ AtCall("create_pipeline")
    /\ Advance
    /\ validated' = FALSE

CreateNode ==
    /\ AtCall("create_node")
    /\ Advance
    /\ UNCHANGED validated

SetInput ==
    /\ AtCall("set_input")
    /\ Advance
    /\ UNCHANGED validated

ConnectInput ==
    /\ AtCall("connect_input")
    /\ Advance
    /\ validated' = FALSE

ConnectOutput ==
    /\ AtCall("connect_output")
    /\ Advance
    /\ validated' = FALSE

Connect ==
    /\ AtCall("connect")
    /\ Advance
    /\ UNCHANGED validated

Add ==
    /\ AtCall("add")
    /\ Advance
    /\ validated' = (NextCall.ins = {} /\ NextCall.outs = {} /\ validated)

\* pipeline.assert_connected() fails when a declared name is unconnected.
AssertConnected ==
    /\ AtCall("assert_connected")
    /\ pc' = pc + 1
    /\ IF Unconnected(pipeline) = {}
       THEN validated' = TRUE /\ UNCHANGED <<status, error>>
       ELSE /\ status' = "raised"
            /\ error' = "NotConnected"
            /\ UNCHANGED validated
    /\ UNCHANGED <<cls, target, method, options, pipeline>>
    /\ UNCHANGED <<runVars, resolving>>

Return ==
    /\ AtCall("return")
    /\ pc' = pc + 1
    /\ status' = "returned"
    /\ UNCHANGED <<cls, target, method, options, pipeline, validated, error>>
    /\ UNCHANGED <<runVars, resolving>>

Raise ==
    /\ AtCall("raise")
    /\ pc' = pc + 1
    /\ status' = "raised"
    /\ error' = NextCall.name
    /\ UNCHANGED <<cls, target, method, options, pipeline, validated>>
    /\ UNCHANGED <<runVars, resolving>>

NextBuild ==
    \/ \E m \in MethodsOf(cls) : \E o \in CallerOptions(m) : CallMethod(m, o)
    \/ \E n \in RegistryNames(cls) : LookupProducer(n)
    \/ \E n \in RegistryNames(cls) : ResolvePrerequisite(n)
    \/ CreatePipeline
    \/ CreateNode
    \/ SetInput
    \/ ConnectInput
    \/ ConnectOutput
    \/ Connect
    \/ Add
    \/ AssertConnected
    \/ Return
    \/ Raise

Spec == InitBuild /\ [][NextBuild]_vars

(***************************************************************************)
(* Properties of pipeline construction and of the registries               *)
(***************************************************************************)

Finished == status \in {"returned", "raised"}

\* The method was reached through the registry of one of the classes whose
\* registry is written with set_data_specs / set_dataset_specs.
ProducerBuilt ==
    /\ Finished
    /\ target # ""
    /\ cls \in {"MRIStudy", "T2StarStudy", "DummyStudy"}

\* C1 (as stated): building the producing pipeline of a registered dataset
\* returns a pipeline in which every declared input name and every declared
\* output name has been connected exactly once.
C1_EachNameConnectedExactlyOnce ==
    ProducerBuilt =>
        /\ status = "returned"
        /\ \A n \in InputNames(pipeline) : InputConnections(pipeline, n) = 1
        /\ \A n \in OutputNames(pipeline) : OutputConnections(pipeline, n) = 1

\* C1 (amended): building the producing pipeline of a registered dataset
\* returns a pipeline in which every declared output name has been connected
\* exactly once and every declared input name at least once (an input may
\* feed several nodes).
C1_InputsConnectedOutputsOnce ==
    ProducerBuilt =>
        /\ status = "returned"
        /\ \A n \in InputNames(pipeline) : InputConnections(pipeline, n) >= 1
        /\ \A n \in OutputNames(pipeline) : OutputConnections(pipeline, n) = 1

\* eddy_pipeline has been built for 'dwipreproc' with 'dicom_dwi' feeding
\* two nodes.
C1_Witness ==
    /\ ProducerBuilt
    /\ target = "dwipreproc"
    /\ status = "returned"
    /\ InputConnections(pipeline, "dicom_dwi") = 2
    /\ OutputConnections(pipeline, "dwipreproc") = 1

\* C2: no method returns a pipeline it has wired with connect_input or
\* connect_output without a successful assert_connected after the last of
\* those calls.
C2_ValidatedBeforeReturn ==
    (status = "returned"
        /\ \E i \in DOMAIN CurrentBody :
              CurrentBody[i].op \in {"connect_input", "connect_output"})
    => validated

\* C3: a returned pipeline has no declared input or output with zero
\* connections.
C3_NoUnconnectedNameReturned ==
    status = "returned" => Unconnected(pipeline) = {}

\* C4: a registry has at most one entry per name, the producing method of
\* every entry is found on the class or its bases, and the pipeline it
\* builds declares the entry's name among its outputs.
C4_ProducerResolvable ==
    /\ \A n \in RegistryNames(cls) : Cardinality(Entries(cls, n)) = 1
    /\ target # "" => error # "AttributeError"
    /\ (target # "" /\ status = "returned") => target \in OutputNames(pipeline)

\* The formats the registry of class c records for name n.
RegistryFormats(c, n) == {Registry(c)[i].format : i \in Entries(c, n)}

\* C5 (as stated): every name a pipeline declares as input or output carries
\* the format the registry of the class records for that name.
C5_FormatsAgree ==
    \A d \in pipeline.inputs \cup pipeline.outputs :
        RegistryFormats(cls, d[1]) \subseteq {d[2]}

\* The names whose pipeline declaration is in another format than the
\* registry entry, leaving the conversion to the framework.
ConvertedNames ==
    {<<"ConversionStudy", "dicom">>, <<"ConversionStudy", "zip">>,
     <<"ConversionStudy", "nifti_from_mrtrix">>,
     <<"ConversionStudy", "zip_from_directory">>,
     <<"T1Study", "suit_mask">>}

\* C5 (amended): every name a pipeline declares as input or output carries
\* the format the registry records for it, except the names ConversionStudy
\* declares in a different format to exercise conversion ('dicom', 'zip',
\* 'nifti_from_mrtrix', 'zip_from_directory') and T1Study's 'suit_mask',
\* registered with a list of accepted formats.
C5_FormatsAgreeUnlessConverted ==
    \A d \in pipeline.inputs \cup pipeline.outputs :
        <<cls, d[1]>> \notin ConvertedNames
            => RegistryFormats(cls, d[1]) \subseteq {d[2]}

\* conv_pipeline has been built: 'dicom' is declared as text although it is
\* registered as dicom, while 'directory' agrees with the registry.
C5_Witness ==
    /\ status = "returned"
    /\ cls = "ConversionStudy"
    /\ <<"dicom", "text">> \in pipeline.inputs
    /\ RegistryFormats(cls, "dicom") = {"dicom"}
    /\ <<"directory", "directory">> \in pipeline.inputs
    /\ RegistryFormats(cls, "directory") = {"directory"}

(***************************************************************************)
(* Running pipelines (test/unittests/study/test_study.py,                  *)
(* test/unittests/test_converters.py)                                      *)
(***************************************************************************)

\* Largest voxel value of an input image and number of voxels of an image.
MaxVoxel == 2
NVoxels == 2

\* TestRunPipeline.SUBJECT_IDS, TestRunPipeline.SESSION_IDS
SUBJECT_IDS == {"SUBJECTID1", "SUBJECTID2", "SUBJECTID3"}
SESSION_IDS == {"SESSIONID1", "SESSIONID2"}

DummyScenarios ==
    {"pipeline_prerequisites", "subject_summary", "project_summary"}

\* The runs whose pipeline is followed node by node.
NodeStepped == {"qsm"}

SummaryScenarios == {"subject_summary", "project_summary"}

\* The study class each test creates.
StudyOf(sc) ==
    CASE sc \in DummyScenarios -> "DummyStudy"
      [] sc = "conversion" -> "ConversionStudy"
      [] sc = "qsm" -> "T2StarStudy"
      [] OTHER -> ""

\* The subjects and sessions of the project each test sets up.
SubjectsOf(sc) == IF sc \in DummyScenarios THEN SUBJECT_IDS ELSE {"SUBJECT"}
SessionsOf(sc) == IF sc \in DummyScenarios THEN SESSION_IDS ELSE {"SESSION"}

\* The calls each test makes, in order.
run(m) == [call |-> "run", name |-> m]
data(n) == [call |-> "data", name |-> n]

Script(sc) ==
    CASE sc = "pipeline_prerequisites" -> << run("pipeline4") >>
      [] sc = "subject_summary" -> << run("subject_summary_pipeline") >>
      [] sc = "project_summary" -> << run("project_summary_pipeline") >>
      [] sc = "qsm" -> << run("qsm_pipeline") >>
      [] sc = "conversion" ->
            << data("nifti_gz_from_dicom"), data("mrtrix_from_nifti_gz"),
               data("nifti_from_mrtrix"), data("directory_from_zip"),
               data("zip_from_directory") >>
      [] sc = "archive_roundtrip" ->
            << [call |-> "setUp", name |-> ""],
               [call |-> "workflow_run", name |-> ""] >>
      [] sc = "archive_summary" ->
            << [call |-> "setUp", name |-> ""],
               [call |-> "workflow_run", name |-> ""] >>
      [] OTHER -> << >>

\* An image with the same value in every voxel.
Uniform(v) == [i \in 1..NVoxels |-> v]

\* A dataset as stored in the archive.
Stored(f, d) == [format |-> f, data |-> d]

\* The registry entry of dataset n in class c.
Entry(c, n) == Registry(c)[CHOOSE i \in Entries(c, n) : TRUE]

\* The key a dataset is stored under, by multiplicity.
Key(n, subject, session) == <<n, subject, session>>

\* The places a dataset of multiplicity m is stored at.
Contexts(sc, m) ==
    CASE m = "per_session" -> SubjectsOf(sc) \X SessionsOf(sc)
      [] m = "per_subject" -> SubjectsOf(sc) \X {""}
      [] OTHER -> {<<"", "">>}

\* The sessions a place covers: itself, the sessions of its subject, or the
\* sessions of the whole project.
Covered(sc, ctx) ==
    {x \in SubjectsOf(sc) \X SessionsOf(sc) :
        /\ ctx[1] \in {"", x[1]}
        /\ ctx[2] \in {"", x[2]}}

\* The pipeline each method of each class builds when called without options.
BuiltPipelines ==
    [c \in StudyClasses |->
        [m \in MethodsOf(c) |-> Built(Resolve(c, m), m, NoOptions)]]

\* The pipeline a method of the scenario's study builds.
PipelineOf(c, m) == BuiltPipelines[c][m]

\* The multiplicity of what a pipeline produces.
OutputMultiplicity(c, m) ==
    LET o == CHOOSE n \in OutputNames(PipelineOf(c, m)) : TRUE
    IN Entry(c, o).multiplicity

\* The pipelines producing the registered inputs of the pipelines in S.
Prerequisites(c, S) ==
    {Entry(c, n).pipeline :
        n \in {x \in UNION {InputNames(PipelineOf(c, m)) : m \in S} :
                  /\ x \in RegistryNames(c)
                  /\ Entry(c, x).pipeline # Acquired}}

\* A pipeline together with all the pipelines it needs, transitively.
RECURSIVE WithPrerequisites(_, _)
WithPrerequisites(c, S) ==
    LET N == S \cup Prerequisites(c, S)
    IN IF N = S THEN S ELSE WithPrerequisites(c, N)

Present(k) == k \in DOMAIN store

\* Pipeline m has written all its outputs at place ctx.
OutputsPresent(c, m, ctx) ==
    \A n \in OutputNames(PipelineOf(c, m)) : Present(Key(n, ctx[1], ctx[2]))

\* Pipeline m can read all its inputs for place ctx.
InputsPresent(sc, c, m, ctx) ==
    \A n \in InputNames(PipelineOf(c, m)) :
        \A x \in Covered(sc, ctx) : Present(Key(n, x[1], x[2]))

\* Everything handed to the engine has been executed everywhere.
EngineIdle ==
    \A m \in scheduled :
        \A ctx \in Contexts(scenario, OutputMultiplicity(cls, m)) :
            OutputsPresent(cls, m, ctx)

(***************************************************************************)
(* What the nodes of a pipeline compute                                    *)
(***************************************************************************)

\* MRMath: voxelwise combination of two images.
Combine(operation, a, b) ==
    [i \in DOMAIN a |->
        CASE operation = "sum" -> a[i] + b[i]
          [] operation = "product" -> a[i] * b[i]
          [] operation = "max" -> IF a[i] >= b[i] THEN a[i] ELSE b[i]
          [] operation = "min" -> IF a[i] <= b[i] THEN a[i] ELSE b[i]
          [] OTHER -> a[i]]

\* The scalar a node input has been set to.
Setting(p, node, field) ==
    LET S == {s \in p.settings : s[1] = node /\ s[2] = field}
    IN IF S = {} THEN "" ELSE (CHOOSE s \in S : TRUE)[3]

NodeOf(p, node) == CHOOSE n \in p.nodes : n[1] = node

\* The places a join node collects its input over.
Joined(sc, join, ctx) ==
    IF join = "sessions"
    THEN {x \in SubjectsOf(sc) \X SessionsOf(sc) : x[1] = ctx[1]}
    ELSE {x \in SubjectsOf(sc) \X {""} : TRUE}

RECURSIVE InputValue(_, _, _, _, _)
RECURSIVE NodeOutput(_, _, _, _)
RECURSIVE JoinValue(_, _, _, _, _, _)

\* The image arriving at a node input: a pipeline input read from the
\* archive, or the output of the node connected to it.
InputValue(sc, p, node, field, ctx) ==
    LET I == {c \in p.input_conns : c[2] = node /\ c[3] = field}
        N == {c \in p.conns : c[3] = node /\ c[4] = field}
    IN IF I # {}
       THEN store[Key((CHOOSE c \in I : TRUE)[1], ctx[1], ctx[2])].data
       ELSE NodeOutput(sc, p, (CHOOSE c \in N : TRUE)[1], ctx)

\* The images of a join node's input over the joined places, combined.
JoinValue(sc, p, node, field, operation, ctxs) ==
    LET x == CHOOSE y \in ctxs : TRUE
    IN IF ctxs \ {x} = {}
       THEN InputValue(sc, p, node, field, x)
       ELSE Combine(operation, InputValue(sc, p, node, field, x),
                    JoinValue(sc, p, node, field, operation, ctxs \ {x}))

\* The image a node produces at a place.
NodeOutput(sc, p, node, ctx) ==
    LET n == NodeOf(p, node)
    IN CASE n[2] = "MRMath" /\ n[3] # "" ->
                JoinValue(sc, p, node, "in_files",
                          Setting(p, node, "operation"),
                          Joined(sc, n[3], ctx))
         [] n[2] = "MRCat" ->
                InputValue(sc, p, node, "first_scan", ctx)
                \o InputValue(sc, p, node, "second_scan", ctx)
         [] n[2] = "MRConvert" -> InputValue(sc, p, node, "in_file", ctx)
         [] n[2] = "Prepare" -> InputValue(sc, p, node, "in_dir", ctx)
         [] n[2] = "BET" -> InputValue(sc, p, node, "in_file", ctx)
         [] n[2] = "STI" ->
                Combine("product", InputValue(sc, p, node, "in_dir", ctx),
                        InputValue(sc, p, node, "mask_file", ctx))
         [] OTHER -> InputValue(sc, p, node, "file", ctx)

\* The image pipeline p delivers as output n at a place.
OutputValue(sc, p, n, ctx) ==
    LET c == CHOOSE x \in p.output_conns : x[1] = n
    IN NodeOutput(sc, p, c[2], ctx)

(***************************************************************************)
(* Local archive round trip (test/archive/test_local.py)                   *)
(***************************************************************************)

\* Scan(name, nifti_gz_format): a name is written <<stem, number>>, a file
\* name <<stem, number, extension>>.
Scan(stem, i) == <<stem, i>>

nifti_gz_extension == ".nii.gz"

FileName(scan) == <<scan[1], scan[2], nifti_gz_extension>>

\* test_archive_roundtrip: source_files, sink_files
source_files == {Scan("source", i) : i \in 1..4}
sink_files == {Scan("sink", 1), Scan("sink", 3), Scan("sink", 4)}

\* setUp: shutil.copy(TEST_IMAGE, 'source{i}.nii.gz') for i in xrange(1, 5)
SetUpFiles == {<<"session", <<"source", i, nifti_gz_extension>>>> : i \in 1..4}

\* The wiring loop connecting only the source whose name ends with '1'.
RoundtripWiring_only_first ==
    {<<sf, Scan("sink", sf[2])>> : sf \in {x \in source_files : x[2] = 1}}

\* for source_file in source_files: if not name.endswith('2'):
\*     connect(source, name, sink, name.replace('source', 'sink'))
RoundtripWiring ==
    {<<sf, Scan("sink", sf[2])>> : sf \in {x \in source_files : x[2] # 2}}

\* The files of one directory of the archive.
Listing(dir) == {f[2] : f \in {x \in files : x[1] = dir}}

\* The sink datasets that have a connected input.
ConnectedSinks == {k \in sink_files : \E w \in RoundtripWiring : w[2] = k}

\* test_summary: source_files, and the datasets of subject_sink and
\* project_sink
summary_source_files == {Scan("source", 1), Scan("source", 2)}
subject_sink_files == {Scan("sink", 1)}
project_sink_files == {Scan("sink", 2)}

\* test_summary: workflow.connect(source, 'source1' + OUTPUT_SUFFIX,
\*                                <sink>, 'sink1' + INPUT_SUFFIX)
\* for subject_sink and for project_sink, as <<source, sink node, input>>.
SummaryWiring ==
    {<<Scan("source", 1), "subject_sink", Scan("sink", 1)>>,
     <<Scan("source", 1), "project_sink", Scan("sink", 1)>>}

ArchiveScenarios == {"archive_roundtrip", "archive_summary"}

\* The datasets the source node of each test's workflow declares.
SourceFilesOf(sc) ==
    IF sc = "archive_summary" THEN summary_source_files ELSE source_files

\* The sink nodes of each test's workflow: <<node, multiplicity, datasets>>.
SinksOf(sc) ==
    CASE sc = "archive_roundtrip" -> {<<"sink", "per_session", sink_files>>}
      [] sc = "archive_summary" ->
            {<<"subject_sink", "per_subject", subject_sink_files>>,
             <<"project_sink", "per_project", project_sink_files>>}
      [] OTHER -> {}

SinkNodes(sc) == {s[1] : s \in SinksOf(sc)}

\* The connections from the source to the sinks: <<source, sink node, input>>.
WiringOf(sc) ==
    CASE sc = "archive_roundtrip" ->
            {<<w[1], "sink", w[2]>> : w \in RoundtripWiring}
      [] sc = "archive_summary" -> SummaryWiring
      [] OTHER -> {}

\* Every connection leaves a declared source output and enters an input the
\* sink node declares.
WiringDeclared(sc) ==
    \A w \in WiringOf(sc) :
        /\ w[1] \in SourceFilesOf(sc)
        /\ \E s \in SinksOf(sc) : s[1] = w[2] /\ w[3] \in s[3]

\* The directory a sink of each multiplicity writes into: the session
\* directory, the subject's summary directory (LocalSubjectSink.DIRNAME) or
\* the project's summary directory (LocalProjectSink.DIRNAME).
SinkDirectory(multiplicity) ==
    CASE multiplicity = "per_subject" -> "subject"
      [] multiplicity = "per_project" -> "project"
      [] OTHER -> "session"

\* The declared datasets of a sink node whose input is connected.
ConnectedDatasets(sc, s) ==
    {k \in s[3] : \E w \in WiringOf(sc) : w[2] = s[1] /\ w[3] = k}

(***************************************************************************)
(* Execution: the calls of the tests and the steps of the workflow engine  *)
(***************************************************************************)

StudyScenarios == DummyScenarios \cup {"conversion", "qsm"}

Scenarios == StudyScenarios \cup ArchiveScenarios

\* test_converters.py: the acquired filesets the conversion test supplies.
ConversionInputs == {"mrtrix", "nifti_gz", "dicom", "directory", "zip"}

\* The acquired datasets each test supplies, for every session: 'ones_slice'
\* holds ones[session] in every voxel and a fileset of the conversion test
\* content[name].
InputData(sc, ones, content) ==
    LET names == IF sc \in DummyScenarios THEN {"start", "ones_slice"}
                 ELSE IF sc = "conversion" THEN ConversionInputs
                 ELSE IF sc = "qsm" THEN {"kspace"}
                 ELSE {}
        keys == {Key(n, x[1], x[2]) :
                    n \in names, x \in SubjectsOf(sc) \X SessionsOf(sc)}
    IN [k \in keys |->
            Stored(Entry(StudyOf(sc), k[1]).format,
                   IF k[1] = "ones_slice" THEN Uniform(ones[<<k[2], k[3]>>])
                   ELSE IF k[1] \in DOMAIN content
                   THEN Uniform(content[k[1]])
                   ELSE Uniform(1))]

InitRun ==
    /\ scenario \in Scenarios
    /\ inherited = NoInherited
    /\ resolving = << >>
    /\ cls = StudyOf(scenario)
    /\ \E ones \in [SUBJECT_IDS \X SESSION_IDS -> 1..MaxVoxel] :
       \E content \in [ConversionInputs -> 1..MaxVoxel] :
          /\ scenario \notin SummaryScenarios
                => \A x \in DOMAIN ones : ones[x] = 1
          /\ scenario # "conversion"
                => \A n \in DOMAIN content : content[n] = 1
          /\ store = InputData(scenario, ones, content)
    /\ generated = NoStore
    /\ step = 0
    /\ scheduled = {}
    /\ files = {}
    /\ target = ""
    /\ method = <<"", "">>
    /\ options = NoOptions
    /\ pc = 0
    /\ pipeline = EmptyPipeline
    /\ validated = FALSE
    /\ status = "idle"
    /\ error = ""

NextScriptCall == Script(scenario)[step + 1]

AtScript(kind) ==
    /\ error = ""
    /\ step < Len(Script(scenario))
    /\ NextScriptCall.call = kind

unchangedBuild ==
    UNCHANGED <<cls, target, method, options, pc, pipeline, validated, status,
                inherited, resolving>>

\* self.study.<method>().run(work_dir=...): the pipeline and the pipelines
\* producing its inputs are handed to the engine.
RunPipeline ==
    /\ AtScript("run")
    /\ EngineIdle
    /\ step' = step + 1
    /\ scheduled' = WithPrerequisites(cls, {NextScriptCall.name})
    /\ UNCHANGED <<store, generated, files, scenario, error>>
    /\ unchangedBuild

\* study.data(name): a dataset that is present is returned as it is; an
\* absent one is generated by its registered producing pipeline.
RequestData ==
    /\ AtScript("data")
    /\ EngineIdle
    /\ step' = step + 1
    /\ LET n == NextScriptCall.name
           e == Entry(cls, n)
       IN IF n \notin RegistryNames(cls)
          THEN error' = "NameError" /\ scheduled' = {}
          ELSE IF \A ctx \in Contexts(scenario, e.multiplicity) :
                      Present(Key(n, ctx[1], ctx[2]))
          THEN error' = error /\ scheduled' = {}
          ELSE IF e.pipeline = Acquired
          THEN error' = "MissingInput" /\ scheduled' = {}
          ELSE IF Resolve(cls, e.pipeline) = ""
          THEN error' = "AttributeError" /\ scheduled' = {}
          ELSE /\ error' = error
               /\ scheduled' = WithPrerequisites(cls, {e.pipeline})
    /\ UNCHANGED <<store, generated, files, scenario>>
    /\ unchangedBuild

\* The result file a node leaves in the working directory once it has run.
ResultFile(node) == <<node, 0, ".pklz">>

NodeRan(node) == <<"work_dir", ResultFile(node)>> \in files

\* The nodes whose outputs are connected to an input of the node.
Upstream(p, node) == {c[1] : c \in {x \in p.conns : x[3] = node}}

\* The engine runs one node of scheduled pipeline m: a node runs once, after
\* the pipeline's inputs are there and every node feeding it has run.
RunNode(m, node) ==
    /\ scenario \in NodeStepped
    /\ error = ""
    /\ m \in scheduled
    /\ node \in {n[1] : n \in PipelineOf(cls, m).nodes}
    /\ \A ctx \in Contexts(scenario, OutputMultiplicity(cls, m)) :
          InputsPresent(scenario, cls, m, ctx)
    /\ ~NodeRan(node)
    /\ \A u \in Upstream(PipelineOf(cls, m), node) : NodeRan(u)
    /\ files' = files \cup {<<"work_dir", ResultFile(node)>>}
    /\ UNCHANGED <<scheduled, store, generated, step, scenario, error>>
    /\ unchangedBuild

\* The engine executes scheduled pipeline m at place ctx once its inputs are
\* there (and, where nodes are followed one by one, all its nodes have run)
\* and writes every output of the pipeline to the archive.
Execute(m, ctx) ==
    /\ scenario \in StudyScenarios
    /\ error = ""
    /\ m \in scheduled
    /\ ctx \in Contexts(scenario, OutputMultiplicity(cls, m))
    /\ InputsPresent(scenario, cls, m, ctx)
    /\ ~OutputsPresent(cls, m, ctx)
    /\ scenario \in NodeStepped =>
          \A n \in PipelineOf(cls, m).nodes : NodeRan(n[1])
    /\ LET p == PipelineOf(cls, m)
           new == {Key(n, ctx[1], ctx[2]) : n \in OutputNames(p)}
       IN /\ store' = [k \in DOMAIN store \cup new |->
                          IF k \in new
                          THEN Stored(Entry(cls, k[1]).format,
                                      OutputValue(scenario, p, k[1], ctx))
                          ELSE store[k]]
          /\ generated' = [k \in DOMAIN generated \cup new |->
                              IF k \in new
                              THEN (IF k \in DOMAIN generated
                                    THEN generated[k] + 1 ELSE 1)
                              ELSE generated[k]]
    /\ UNCHANGED <<scheduled, step, files, scenario, error>>
    /\ unchangedBuild

ExecuteSession(m, subject, session) ==
    /\ session # ""
    /\ Execute(m, <<subject, session>>)

ExecuteSubject(m, subject) ==
    /\ subject # ""
    /\ Execute(m, <<subject, "">>)

ExecuteProject(m) == Execute(m, <<"", "">>)

\* TestLocalArchive.setUp: a fresh session directory with the source files.
SetUp ==
    /\ AtScript("setUp")
    /\ step' = step + 1
    /\ files' = SetUpFiles
    /\ UNCHANGED <<scheduled, store, generated, scenario, error>>
    /\ unchangedBuild

\* workflow.run() of the source/sink workflow.  When every connection is
\* to a declared input, the source and the sinks are scheduled.  A
\* connection to an input the sink does not declare is either refused or
\* accepted and never read, depending on how the sink's inputs are checked.
WorkflowRun ==
    /\ AtScript("workflow_run")
    /\ step' = step + 1
    /\ \/ /\ WiringDeclared(scenario)
          /\ scheduled' = {"source"} \cup SinkNodes(scenario)
          /\ error' = error
       \/ /\ ~WiringDeclared(scenario)
          /\ scheduled' = {}
          /\ error' = "NoSuchInput"
       \/ /\ ~WiringDeclared(scenario)
          /\ scheduled' = {"source"} \cup SinkNodes(scenario)
          /\ error' = error
    /\ UNCHANGED <<store, generated, files, scenario>>
    /\ unchangedBuild

\* LocalSource: reads every declared source file of the session and hands
\* the paths to the nodes connected to it.
RunSource ==
    /\ scenario \in ArchiveScenarios
    /\ "source" \in scheduled
    /\ \A sf \in SourceFilesOf(scenario) : FileName(sf) \in Listing("session")
    /\ scheduled' = scheduled \ {"source"}
    /\ UNCHANGED <<store, generated, step, files, scenario, error>>
    /\ unchangedBuild

\* LocalSink / LocalSubjectSink / LocalProjectSink: runs once the source
\* connected to it has, and writes '<name><extension>' into the directory of
\* its multiplicity for every declared dataset whose input is connected.
RunSink(node) ==
    /\ scenario \in ArchiveScenarios
    /\ node \in scheduled
    /\ (\E w \in WiringOf(scenario) : w[2] = node) => "source" \notin scheduled
    /\ scheduled' = scheduled \ {node}
    /\ \E s \in SinksOf(scenario) :
          /\ s[1] = node
          /\ files' = files \cup
                {<<SinkDirectory(s[2]), FileName(k)>> :
                    k \in ConnectedDatasets(scenario, s)}
    /\ UNCHANGED <<store, generated, step, scenario, error>>
    /\ unchangedBuild

NextRun ==
    \/ RunPipeline
    \/ RequestData
    \/ \E m \in scheduled : \E x \in SubjectsOf(scenario) :
          \E y \in SessionsOf(scenario) : ExecuteSession(m, x, y)
    \/ \E m \in scheduled : \E x \in SubjectsOf(scenario) : ExecuteSubject(m, x)
    \/ \E m \in scheduled : ExecuteProject(m)
    \/ /\ scenario \in NodeStepped
       /\ \E m \in scheduled :
             \E n \in PipelineOf(cls, m).nodes : RunNode(m, n[1])
    \/ SetUp
    \/ WorkflowRun
    \/ RunSource
    \/ \E node \in SinkNodes(scenario) : RunSink(node)

SpecRun == InitRun /\ [][NextRun]_vars

\* The engine keeps executing what can be executed.
FairSpecRun == SpecRun /\ WF_vars(NextRun)

(***************************************************************************)
(* Properties of pipeline execution and of the archive                     *)
(***************************************************************************)

\* The script of the test has been run to its end.
RunFinished ==
    /\ step = Len(Script(scenario))
    /\ error = ""
    /\ IF scenario \in StudyScenarios THEN EngineIdle ELSE scheduled = {}

\* The five derived filesets of ConversionStudy.
ConvertedFilesets ==
    {"nifti_gz_from_dicom", "mrtrix_from_nifti_gz", "nifti_from_mrtrix",
     "directory_from_zip", "zip_from_directory"}

PerSessionDerived ==
    {e.name : e \in {x \in Range(Registry("DummyStudy")) :
                        x.multiplicity = "per_session" /\ x.pipeline # Acquired}}

AllPerSessionDerivedCreated ==
    \A n \in PerSessionDerived \cup
             {"pipeline1_1", "pipeline1_2", "pipeline2", "pipeline3",
              "pipeline4"} :
        \A x \in SUBJECT_IDS : \A y \in SESSION_IDS : Present(Key(n, x, y))

\* C7: running pipeline4 eventually creates pipeline1_1, pipeline1_2,
\* pipeline2, pipeline3 and pipeline4 for every subject and every session.
C7_PrerequisitesEventuallyCreated ==
    (scenario = "pipeline_prerequisites") ~> AllPerSessionDerivedCreated

\* pipeline4 has been run and every per-session derived dataset exists.
C7_Witness ==
    /\ scenario = "pipeline_prerequisites"
    /\ step = 1
    /\ AllPerSessionDerivedCreated

\* The sum of voxel i of 'ones_slice' over a set of sessions.
RECURSIVE OnesTotal(_, _)
OnesTotal(S, i) ==
    IF S = {} THEN 0
    ELSE LET x == CHOOSE y \in S : TRUE
         IN store[Key("ones_slice", x[1], x[2])].data[i]
            + OnesTotal(S \ {x}, i)

AllOnes ==
    \A x \in SUBJECT_IDS \X SESSION_IDS :
        store[Key("ones_slice", x[1], x[2])].data = Uniform(1)

\* C8: subject_summary is stored once per subject, never per session, and
\* is the voxelwise sum of the subject's 'ones_slice' over its sessions; for
\* all-ones input every voxel equals the number of sessions.
C8_SubjectSummaryIsSessionSum ==
    scenario = "subject_summary" =>
        /\ \A k \in DOMAIN store :
              k[1] = "subject_summary" =>
                  /\ k[2] \in SUBJECT_IDS
                  /\ k[3] = ""
                  /\ \A i \in 1..NVoxels :
                        /\ store[k].data[i] =
                              OnesTotal({k[2]} \X SESSION_IDS, i)
                        /\ AllOnes =>
                              store[k].data[i] = Cardinality(SESSION_IDS)
        /\ RunFinished =>
              \A x \in SUBJECT_IDS : Present(Key("subject_summary", x, ""))

\* The subject summaries exist and one of them sums two different sessions.
C8_Witness ==
    /\ scenario = "subject_summary"
    /\ RunFinished
    /\ \E x \in SUBJECT_IDS :
          /\ Present(Key("subject_summary", x, ""))
          /\ store[Key("subject_summary", x, "")].data = Uniform(3)
          /\ \E y \in SESSION_IDS :
                store[Key("ones_slice", x, y)].data = Uniform(2)

\* C9: project_summary is stored exactly once for the project and is the
\* voxelwise sum of 'ones_slice' over all sessions of all subjects; for
\* all-ones input every voxel equals subjects x sessions.
C9_ProjectSummaryIsTotalSum ==
    scenario = "project_summary" =>
        /\ \A k \in DOMAIN store :
              k[1] = "project_summary" =>
                  /\ k[2] = ""
                  /\ k[3] = ""
                  /\ \A i \in 1..NVoxels :
                        /\ store[k].data[i] =
                              OnesTotal(SUBJECT_IDS \X SESSION_IDS, i)
                        /\ AllOnes =>
                              store[k].data[i] =
                                 Cardinality(SUBJECT_IDS)
                                 * Cardinality(SESSION_IDS)
        /\ RunFinished => Present(Key("project_summary", "", ""))

\* The project summary of an all-ones project exists and is 6 everywhere.
C9_Witness ==
    /\ scenario = "project_summary"
    /\ RunFinished
    /\ AllOnes
    /\ Present(Key("project_summary", "", ""))
    /\ store[Key("project_summary", "", "")].data = Uniform(6)

\* test_archive_roundtrip: the listing the session directory must have.
ExpectedListing ==
    {<<"sink", 1, ".nii.gz">>, <<"sink", 3, ".nii.gz">>,
     <<"sink", 4, ".nii.gz">>, <<"source", 1, ".nii.gz">>,
     <<"source", 2, ".nii.gz">>, <<"source", 3, ".nii.gz">>,
     <<"source", 4, ".nii.gz">>}

\* C10: the source files stay in the session directory throughout, and
\* after the workflow has run the directory holds exactly those files plus
\* '<sink name><extension>' for every declared sink whose input was
\* connected: sink1, sink3 and sink4, and nothing for source2.
C10_SessionDirectoryAfterRoundtrip ==
    scenario = "archive_roundtrip" =>
        /\ step >= 1 => {f[2] : f \in SetUpFiles} \subseteq Listing("session")
        /\ "sink" \in scheduled =>
              Listing("session") = {f[2] : f \in SetUpFiles}
        /\ RunFinished =>
              /\ Listing("session") =
                    {f[2] : f \in SetUpFiles}
                    \cup {FileName(k) : k \in ConnectedSinks}
              /\ Listing("session") = ExpectedListing
              /\ <<"sink", 2, ".nii.gz">> \notin Listing("session")

\* The workflow has run and the sink files are in the session directory.
C10_Witness ==
    /\ scenario = "archive_roundtrip"
    /\ RunFinished
    /\ <<"sink", 1, ".nii.gz">> \in Listing("session")
    /\ <<"source", 2, ".nii.gz">> \in Listing("session")
    /\ Cardinality(Listing("session")) = 7

\* workflow.run() of test_summary has returned or raised.
SummaryRun ==
    /\ scenario = "archive_summary"
    /\ step = Len(Script(scenario))
    /\ scheduled = {}

\* C11: after the summary workflow has run, the subject's summary directory
\* holds exactly 'sink1.nii.gz' (the per_subject sink's dataset), the
\* project's summary directory exactly 'sink2.nii.gz' (the per_project
\* sink's dataset), and neither file is in the session directory.
C11_SummarySinksWriteByMultiplicity ==
    SummaryRun =>
        /\ error = ""
        /\ Listing("subject") = {<<"sink", 1, ".nii.gz">>}
        /\ Listing("project") = {<<"sink", 2, ".nii.gz">>}
        /\ <<"sink", 1, ".nii.gz">> \notin Listing("session")
        /\ <<"sink", 2, ".nii.gz">> \notin Listing("session")

QsmCreated == Present(Key("qsm", "SUBJECT", "SESSION"))

\* Processing order of the qsm run: the brain mask is made after the data
\* has been prepared, the reconstruction after both, and 'qsm' is stored
\* after the reconstruction.
QsmOrder ==
    scenario = "qsm" =>
        /\ NodeRan("bet") => NodeRan("prepare")
        /\ NodeRan("qsmrecon") => (NodeRan("prepare") /\ NodeRan("bet"))
        /\ QsmCreated => NodeRan("qsmrecon")

\* C12: running qsm_pipeline on a T2* study with 'kspace' supplied
\* eventually creates 'qsm' (stored as nifti_gz) for the session, and the
\* nodes run in the order prepare, brain mask (BET), reconstruction (STI),
\* the reconstruction being fed by both the prepared data and the mask.
C12_QsmEventuallyCreatedInOrder ==
    /\ []QsmOrder
    /\ (scenario = "qsm") ~> QsmCreated

\* The qsm run has finished: the three nodes have run and 'qsm' is stored in
\* the registered format.
C12_Witness ==
    /\ scenario = "qsm"
    /\ RunFinished
    /\ NodeRan("prepare") /\ NodeRan("bet") /\ NodeRan("qsmrecon")
    /\ QsmCreated
    /\ store[Key("qsm", "SUBJECT", "SESSION")].format = "nifti_gz"
    /\ <<"bet", "mask_file", "qsmrecon", "mask_file">>
          \in PipelineOf("T2StarStudy", "qsm_pipeline").conns
    /\ <<"prepare", "out_dir", "qsmrecon", "in_dir">>
          \in PipelineOf("T2StarStudy", "qsm_pipeline").conns

\* The content of a fileset of the conversion test.
Content(n) == store[Key(n, "SUBJECT", "SESSION")].data

SingleConversions ==
    {<<"nifti_gz_from_dicom", "dicom">>, <<"mrtrix_from_nifti_gz", "nifti_gz">>,
     <<"nifti_from_mrtrix", "mrtrix">>, <<"directory_from_zip", "zip">>,
     <<"zip_from_directory", "directory">>}

Calling(m) == method[2] = m /\ status # "idle"

\* The value of a parameter of the call: the caller's, else the default.
Argument(n, default) == IF n \in DOMAIN options THEN options[n] ELSE default

\* C14: coregister_to_atlas_pipeline returns the FNIRT atlas-registration
\* pipeline when atlas_reg_tool is 'fnirt' (the default); for any other
\* value it raises NiAnalysisError as its only step, no pipeline and no node
\* having been created, and never returns a pipeline of another tool.
C14_UnknownToolRaises ==
    Calling("coregister_to_atlas_pipeline") =>
        IF Argument("atlas_reg_tool", "fnirt") = "fnirt"
        THEN /\ status # "raised"
             /\ status = "returned" =>
                   /\ pipeline.name = "coregister_to_atlas_fnirt"
                   /\ {n[2] : n \in pipeline.nodes} =
                         {"Reorient2Std", "FLIRT", "FNIRT"}
                   /\ OutputNames(pipeline) =
                         {"coreg_to_atlas", "coreg_to_atlas_coeff"}
        ELSE /\ status # "returned"
             /\ pipeline = EmptyPipeline
             /\ pc <= 1
             /\ pc = 1 => (status = "raised" /\ error = "NiAnalysisError")

\* coregister_to_atlas_pipeline(atlas_reg_tool='ants') has raised.
C14_Witness ==
    /\ Calling("coregister_to_atlas_pipeline")
    /\ "atlas_reg_tool" \in DOMAIN options
    /\ options["atlas_reg_tool"] = "ants"
    /\ status = "raised"
    /\ error = "NiAnalysisError"
    /\ pipeline = EmptyPipeline

\* The entries of the registry of class c.
RegistryEntries(c) == Range(Registry(c))

Bet(field) == Setting(pipeline, "bet", field)

\* C16: the BET node of brain_mask_pipeline is configured from the
\* effective options alone (defaults robust=True, f_threshold=0.5,
\* reduce_bias=False, g_threshold=0.0, each replaced by the caller's value):
\* frac is f_threshold, vertical_gradient is g_threshold, robust is set
\* exactly when option 'robust' is true, reduce_bias exactly when option
\* 'reduce_bias' is true, and mask is always set.
C16_BetConfiguredFromOptions ==
    (Calling("brain_mask_pipeline") /\ Finished) =>
        /\ status = "returned"
        /\ pipeline.default_options =
              ("robust" :> "True" @@ "f_threshold" :> "0.5" @@
               "reduce_bias" :> "False" @@ "g_threshold" :> "0.0")
        /\ Bet("frac") = Argument("f_threshold", "0.5")
        /\ Bet("vertical_gradient") = Argument("g_threshold", "0.0")
        /\ Bet("robust") =
              (IF Argument("robust", "True") = "True" THEN "True" ELSE "")
        /\ Bet("reduce_bias") =
              (IF Argument("reduce_bias", "False") = "True" THEN "True"
               ELSE "")
        /\ Bet("mask") = "True"

\* brain_mask_pipeline(robust=False, reduce_bias=True, f_threshold=0.3) has
\* been built.
C16_Witness ==
    /\ Calling("brain_mask_pipeline")
    /\ status = "returned"
    /\ DOMAIN options = {"robust", "reduce_bias", "f_threshold"}
    /\ options["robust"] = "False"
    /\ options["reduce_bias"] = "True"
    /\ options["f_threshold"] = "0.3"
    /\ Bet("robust") = ""
    /\ Bet("reduce_bias") = "True"
    /\ Bet("frac") = "0.3"
    /\ Bet("vertical_gradient") = "0.0"

\* C17: basic_preproc_pipeline with 'resolution' None creates no resample
\* node and takes 'preproc' from the dimension-swap node; with any other
\* 'resolution' it creates the resample node, fed by the swap node, and
\* takes 'preproc' from it.  Either way 'preproc' is connected exactly once
\* and input 'masked' feeds the swap node.
C17_ResampleOnlyWithResolution ==
    (Calling("basic_preproc_pipeline") /\ Finished) =>
        /\ status = "returned"
        /\ <<"fslswapdim", "SwapDimensions", "">> \in pipeline.nodes
        /\ pipeline.input_conns = {<<"masked", "fslswapdim", "in_file">>}
        /\ OutputConnections(pipeline, "preproc") = 1
        /\ IF Argument("resolution", "None") = "None"
           THEN /\ \A n \in pipeline.nodes :
                      n[1] # "resample" /\ n[2] # "MRResize"
                /\ pipeline.conns = {}
                /\ <<"preproc", "fslswapdim", "out_file">>
                      \in pipeline.output_conns
           ELSE /\ <<"resample", "MRResize", "">> \in pipeline.nodes
                /\ <<"fslswapdim", "out_file", "resample", "in_file">>
                      \in pipeline.conns
                /\ Setting(pipeline, "resample", "voxel") =
                      Argument("resolution", "None")
                /\ <<"preproc", "resample", "out_file">>
                      \in pipeline.output_conns

\* basic_preproc_pipeline(resolution=0) has been built with a resample node.
C17_Witness ==
    /\ Calling("basic_preproc_pipeline")
    /\ status = "returned"
    /\ "resolution" \in DOMAIN options
    /\ options["resolution"] = "0"
    /\ <<"resample", "MRResize", "">> \in pipeline.nodes
    /\ pipeline.output_conns = {<<"preproc", "resample", "out_file">>}

\* The list an input of the fnirt node has been set to.
FnirtList(field) ==
    (CHOOSE x \in pipeline.settings : x[1] = "fnirt" /\ x[2] = field)[4]

FnirtBuilt ==
    /\ method[2] \in {"_fsl_fnirt_to_atlas_pipeline",
                      "coregister_to_atlas_pipeline"}
    /\ status = "returned"

\* C18: in the FNIRT atlas-registration pipeline apply_inmask and
\* apply_refmask are the same list, as long as the 'subsampling' option, with
\* 1 at the positions where subsampling is 1 and 0 elsewhere.
C18_MasksFollowSubsampling ==
    FnirtBuilt =>
        LET subsampling == Argument("subsampling", <<4, 4, 2, 2, 1, 1>>)
        IN /\ \E x \in pipeline.settings :
                 x[1] = "fnirt" /\ x[2] = "apply_inmask"
           /\ \E x \in pipeline.settings :
                 x[1] = "fnirt" /\ x[2] = "apply_refmask"
           /\ FnirtList("subsampling_scheme") = subsampling
           /\ FnirtList("apply_inmask") = FnirtList("apply_refmask")
           /\ Len(FnirtList("apply_inmask")) = Len(subsampling)
           /\ \A i \in 1..Len(subsampling) :
                 FnirtList("apply_inmask")[i] =
                    (IF subsampling[i] = 1 THEN 1 ELSE 0)

\* The pipeline has been built for subsampling=[2, 1]: the masks are [0, 1].
C18_Witness ==
    /\ FnirtBuilt
    /\ "subsampling" \in DOMAIN options
    /\ options["subsampling"] = <<2, 1>>
    /\ FnirtList("apply_inmask") = <<0, 1>>
    /\ FnirtList("apply_refmask") = <<0, 1>>

\* The number k of output field 'out<k>' of a Split node.
OutIndex(field) ==
    CASE field = "out1" -> 1
      [] field = "out2" -> 2
      [] field = "out3" -> 3
      [] OTHER -> 0

RECURSIVE SumTo(_, _)
SumTo(splits, k) == IF k = 0 THEN 0 ELSE splits[k] + SumTo(splits, k - 1)

\* The positions of the input list that part k of a split holds.
PartPositions(splits, k) ==
    IF k \in DOMAIN splits
    THEN (SumTo(splits, k - 1) + 1)..SumTo(splits, k)
    ELSE {}

\* The list the split node's 'splits' input has been set to.
Splits ==
    (CHOOSE x \in pipeline.settings : x[1] = "split" /\ x[2] = "splits")[4]

\* C19: segmentation_pipeline splits FAST's tissue-class file list into
\* three single-element parts and connects 'wm_seg' to part 2 ('out2'),
\* which holds the second element of the list, whatever 'img_type' is.
C19_WmSegIsSecondTissueClass ==
    (method[2] = "segmentation_pipeline" /\ status = "returned") =>
        /\ <<"fast", "tissue_class_files", "split", "inlist">>
              \in pipeline.conns
        /\ <<"split", "Split", "">> \in pipeline.nodes
        /\ Splits = <<1, 1, 1>>
        /\ Setting(pipeline, "split", "squeeze") = "True"
        /\ pipeline.output_conns = {<<"wm_seg", "split", "out2">>}
        /\ \A c \in pipeline.output_conns :
              PartPositions(Splits, OutIndex(c[3])) = {2}
        /\ method[1] = "MRIStudy" =>
              Setting(pipeline, "fast", "img_type") = Argument("img_type", "2")

\* segmentation_pipeline(img_type=3) has been built.
C19_Witness ==
    /\ method = <<"MRIStudy", "segmentation_pipeline">>
    /\ status = "returned"
    /\ "img_type" \in DOMAIN options
    /\ options["img_type"] = "3"
    /\ Setting(pipeline, "fast", "img_type") = "3"
    /\ <<"wm_seg", "split", "out2">> \in pipeline.output_conns

\* No dataset is reached twice on a chain of producer look-ups.
DependencyAcyclic ==
    /\ \A i, j \in DOMAIN resolving : i # j => resolving[i] # resolving[j]
    /\ Len(resolving) <= Cardinality(RegistryNames(cls))

\* Every look-up of the chain finds a producer that can be built, and what
\* the producer reads is registered: an acquired dataset, where the chain
\* ends, or a derived one, where it goes on.
EndsAtAcquired ==
    /\ status # "raised"
    /\ status = "returned" =>
          \A n \in InputNames(pipeline) : n \in RegistryNames(cls)

\* C20: the dependency relation of a registry (a dataset depends on the
\* inputs its producing pipeline declares) is acyclic, and following it from
\* any registered dataset ends, after finitely many look-ups, at acquired
\* datasets.
C20_PrerequisiteResolutionTerminates ==
    resolving # << >> => (DependencyAcyclic /\ EndsAtAcquired)

(***************************************************************************)
(* Properties relating the pipelines to the registries                     *)
(***************************************************************************)

\* The method under which the outputs of the running method are registered:
\* the private FNIRT builder is reached only through
\* coregister_to_atlas_pipeline.
RegisteredProducer ==
    IF method[2] = "_fsl_fnirt_to_atlas_pipeline"
    THEN "coregister_to_atlas_pipeline"
    ELSE method[2]

\* The names the registry of class c gives method m as producer.
ProducedBy(c, m) ==
    {Registry(c)[i].name :
        i \in {j \in DOMAIN Registry(c) : Registry(c)[j].pipeline = m}}

\* C21: every input name a pipeline-construction method of a study class
\* declares is an entry of the class's registry, and every output name it
\* declares is registered with that method as its producer; no pipeline
\* reads or writes a name the registry does not know.
C21_PipelineNamesRegistered ==
    (status # "idle" /\ cls \in StudyClasses) =>
        /\ InputNames(pipeline) \subseteq RegistryNames(cls)
        /\ OutputNames(pipeline) \subseteq ProducedBy(cls, RegisteredProducer)

(***************************************************************************)
(* Data flow inside a pipeline                                             *)
(***************************************************************************)

NodeNames(p) == {n[1] : n \in p.nodes}

\* The nodes that data of the nodes in S flows to, S included.
RECURSIVE Downstream(_, _)
Downstream(p, S) ==
    LET T == S \cup {c[3] : c \in {x \in p.conns : x[1] \in S}}
    IN IF T = S THEN S ELSE Downstream(p, T)

\* The nodes whose data flows to the nodes in S, S included.
RECURSIVE UpstreamOf(_, _)
UpstreamOf(p, S) ==
    LET T == S \cup {c[1] : c \in {x \in p.conns : x[3] \in S}}
    IN IF T = S THEN S ELSE UpstreamOf(p, T)

\* The nodes that receive data, directly or through other nodes, from a
\* declared input of the pipeline.
FedByInputs(p) ==
    Downstream(p, {c[2] : c \in {x \in p.input_conns : x[1] \in InputNames(p)}})

\* The nodes whose results reach, directly or through other nodes, a
\* declared output of the pipeline.
FeedingOutputs(p) ==
    UpstreamOf(p, {c[2] : c \in {x \in p.output_conns :
                                    x[1] \in OutputNames(p)}})

\* Every node of p lies on a path from a declared input to a declared
\* output, and every declared output is taken from a node an input reaches.
OnDataFlowPaths(p) ==
    /\ NodeNames(p) \subseteq FedByInputs(p) \cap FeedingOutputs(p)
    /\ \A o \in OutputNames(p) :
          \E c \in p.output_conns : c[1] = o /\ c[2] \in FedByInputs(p)

\* C22: in every constructed pipeline each created node lies on a data-flow
\* path from a declared input to a declared output: every declared output is
\* reachable from some declared input and no node's results are left unused
\* by all outputs.
C22_NodesOnDataFlowPaths ==
    status = "returned" => OnDataFlowPaths(pipeline)

(***************************************************************************)
(* Order of execution of a pipeline and its prerequisites                  *)
(***************************************************************************)

\* Dataset n exists for the session.
Exists(n, x, y) == Present(Key(n, x, y))

\* In every session the datasets of the chain exist only after the datasets
\* of the pipeline before: pipeline1's before pipeline2's, pipeline2's
\* before pipeline3's and pipeline3's before pipeline4's.
ChainOrder ==
    scenario = "pipeline_prerequisites" =>
        \A x \in SUBJECT_IDS : \A y \in SESSION_IDS :
            /\ Exists("pipeline2", x, y) =>
                  Exists("pipeline1_1", x, y) /\ Exists("pipeline1_2", x, y)
            /\ Exists("pipeline3", x, y) => Exists("pipeline2", x, y)
            /\ Exists("pipeline4", x, y) => Exists("pipeline3", x, y)

\* A step that writes a dataset is a step of its registered producer, taken
\* where all the declared inputs of the producer were there before the step.
ExecutedAfterInputs ==
    scenario \in StudyScenarios =>
        \A k \in DOMAIN store' \ DOMAIN store :
            /\ Entry(cls, k[1]).pipeline \in scheduled
            /\ InputsPresent(scenario, cls, Entry(cls, k[1]).pipeline,
                             <<k[2], k[3]>>)

\* C23: while a pipeline and its prerequisites are run, no pipeline executes
\* for a session before all its declared inputs exist for that session:
\* pipeline1 completes before pipeline2, pipeline2 before pipeline3 and
\* pipeline3 before pipeline4, however the executions of the subjects and
\* sessions interleave.
C23_PrerequisitesRunFirst ==
    []ChainOrder /\ [][ExecutedAfterInputs]_vars

\* The sessions are at different points of the chain: one has all of
\* pipeline1 .. pipeline4, another has only pipeline1's outputs and a third
\* has nothing yet.
C23_Witness ==
    /\ scenario = "pipeline_prerequisites"
    /\ Exists("pipeline4", "SUBJECTID1", "SESSIONID1")
    /\ Exists("pipeline1_1", "SUBJECTID2", "SESSIONID1")
    /\ ~Exists("pipeline2", "SUBJECTID2", "SESSIONID1")
    /\ ~Exists("pipeline1_1", "SUBJECTID3", "SESSIONID2")

(***************************************************************************)
(* The parameters given to FNIRT                                           *)
(***************************************************************************)

\* The inputs of FNIRT that hold one value per resolution level.
PerLevelFields ==
    {"subsampling_scheme", "in_fwhm", "ref_fwhm", "regularization_lambda",
     "apply_intensity_mapping", "max_nonlin_iter", "apply_inmask",
     "apply_refmask"}

\* C24: in the FNIRT atlas-registration pipeline all per-level parameter
\* lists given to FNIRT (subsampling_scheme, in_fwhm, ref_fwhm,
\* regularization_lambda, apply_intensity_mapping, max_nonlin_iter,
\* apply_inmask, apply_refmask) have the same length, whatever 'subsampling'
\* the caller supplies.
C24_PerLevelListsSameLength ==
    FnirtBuilt =>
        \A f, g \in PerLevelFields : Len(FnirtList(f)) = Len(FnirtList(g))

(***************************************************************************)
(* T1Study.segmentation_pipeline against MRIStudy.segmentation_pipeline    *)
(***************************************************************************)

\* What MRIStudy.segmentation_pipeline(img_type=1, **options) has built
\* after its first n calls.
RECURSIVE BaseSegmentationAfter(_, _)
BaseSegmentationAfter(body, n) ==
    IF n = 0 THEN EmptyPipeline
    ELSE Apply(BaseSegmentationAfter(body, n - 1), body[n])

\* C25: T1Study.segmentation_pipeline builds the base segmentation pipeline
\* with img_type fixed to 1: called with modifications that do not contain
\* 'img_type' it builds, call by call, what MRIStudy.segmentation_pipeline
\* builds for img_type=1 and those modifications, and returns that pipeline;
\* called with 'img_type' it ends in an error and returns no pipeline, so no
\* other img_type can be had through it.
C25_T1SegmentationFixesImgType ==
    (cls = "T1Study" /\ Calling("segmentation_pipeline")) =>
        IF "img_type" \notin DOMAIN options
        THEN LET base == Body("MRIStudy", "segmentation_pipeline",
                              ("img_type" :> "1") @@ options)
             IN /\ status # "raised"
                /\ pc <= Len(base)
                /\ pipeline = BaseSegmentationAfter(base, pc)
                /\ status = "returned" =>
                      /\ pc = Len(base)
                      /\ Setting(pipeline, "fast", "img_type") = "1"
        ELSE /\ status # "returned"
             /\ pipeline = EmptyPipeline
             /\ pc = 1 => (status = "raised" /\ error = "TypeError")

\* Both cases have happened: the pipeline was returned with img_type 1 ...
C25_Witness ==
    /\ cls = "T1Study"
    /\ Calling("segmentation_pipeline")
    /\ method[1] = "T1Study"
    /\ options = NoOptions
    /\ status = "returned"
    /\ Setting(pipeline, "fast", "img_type") = "1"
    /\ pipeline.output_conns = {<<"wm_seg", "split", "out2">>}

\* ... and a call with img_type=3 has ended in TypeError.
C25_WitnessRefused ==
    /\ cls = "T1Study"
    /\ Calling("segmentation_pipeline")
    /\ "img_type" \in DOMAIN options
    /\ options["img_type"] = "3"
    /\ status = "raised"
    /\ error = "TypeError"

\* The settings of input 'intensity_mapping_model' of the fnirt node.
IntensityMappingModel ==
    {x \in pipeline.settings :
        x[1] = "fnirt" /\ x[2] = "intensity_mapping_model"}

\* C26: in the FNIRT atlas-registration pipeline the intensity mapping model
\* given to FNIRT is the string 'none' when option 'intensity_model' is None
\* and the option's value unchanged otherwise; it is never left unset and
\* never None.
C26_IntensityModelNoneAsString ==
    FnirtBuilt =>
        LET intensity_model ==
                Argument("intensity_model", "global_non_linear_with_bias")
        IN /\ Cardinality(IntensityMappingModel) = 1
           /\ \A x \in IntensityMappingModel :
                 /\ x[3] # "None"
                 /\ x[3] = (IF intensity_model = "None" THEN "none"
                            ELSE intensity_model)

\* The pipeline has been built for intensity_model=None: FNIRT is given
\* 'none'.
C26_Witness ==
    /\ FnirtBuilt
    /\ "intensity_model" \in DOMAIN options
    /\ options["intensity_model"] = "None"
    /\ Setting(pipeline, "fnirt", "intensity_mapping_model") = "none"

====
